---- MODULE Spec2Model ----
(***************************************************************************)
(* chainwatch: policy decision engine, trace accumulator, enforcement and   *)
(* redaction.                                                               *)
(*                                                                          *)
(* Representation.  A Python str on which the code works character by       *)
(* character (resources, tool names, denylist patterns, text payloads) is a *)
(* tuple of one-character strings.  A str the code only compares as a whole *)
(* (sensitivity, egress, purpose, policy ids, dictionary keys) is a TLA+    *)
(* string.  A dynamically typed Python value is a record [t, v]: t the      *)
(* Python type, v the value.                                                *)
(***************************************************************************)
EXTENDS Integers, Sequences, FiniteSets, TLC

(***************************************************************************)
(* Strings                                                                  *)
(***************************************************************************)

\* str.lower() on one character (ASCII letters).
UpperToLower ==
    [c \in {"A","B","C","D","E","F","G","H","I","J","K","L","M",
            "N","O","P","Q","R","S","T","U","V","W","X","Y","Z"} |->
        CASE c = "A" -> "a" [] c = "B" -> "b" [] c = "C" -> "c" [] c = "D" -> "d"
          [] c = "E" -> "e" [] c = "F" -> "f" [] c = "G" -> "g" [] c = "H" -> "h"
          [] c = "I" -> "i" [] c = "J" -> "j" [] c = "K" -> "k" [] c = "L" -> "l"
          [] c = "M" -> "m" [] c = "N" -> "n" [] c = "O" -> "o" [] c = "P" -> "p"
          [] c = "Q" -> "q" [] c = "R" -> "r" [] c = "S" -> "s" [] c = "T" -> "t"
          [] c = "U" -> "u" [] c = "V" -> "v" [] c = "W" -> "w" [] c = "X" -> "x"
          [] c = "Y" -> "y" [] c = "Z" -> "z"]

LowerChar(c) == IF c \in DOMAIN UpperToLower THEN UpperToLower[c] ELSE c

\* str.lower()
Lower(s) == [i \in 1..Len(s) |-> LowerChar(s[i])]

\* sub in s
Contains(s, sub) ==
    \E i \in 1..(Len(s) - Len(sub) + 1) : SubSeq(s, i, i + Len(sub) - 1) = sub

\* x in seq
InSeq(x, seq) == \E i \in 1..Len(seq) : seq[i] = x

\* Index of the first occurrence of character c in s, 0 when there is none.
FirstIndex(s, c) ==
    IF \E i \in 1..Len(s) : s[i] = c
    THEN CHOOSE i \in 1..Len(s) : s[i] = c /\ \A j \in 1..(i - 1) : s[j] # c
    ELSE 0

\* s.split(c, 1)[0]
SplitFirst(s, c) ==
    IF FirstIndex(s, c) = 0 THEN s ELSE SubSeq(s, 1, FirstIndex(s, c) - 1)

\* s.split(c): the pieces between the occurrences of c.
RECURSIVE Split(_, _)
Split(s, c) ==
    IF FirstIndex(s, c) = 0 THEN <<s>>
    ELSE <<SubSeq(s, 1, FirstIndex(s, c) - 1)>>
         \o Split(SubSeq(s, FirstIndex(s, c) + 1, Len(s)), c)

DigitChars == <<"0","1","2","3","4","5","6","7","8","9">>

IsDigit(c) == \E d \in 1..10 : DigitChars[d] = c

DigitValue(c) == (CHOOSE d \in 1..10 : DigitChars[d] = c) - 1

\* str(n) for an integer n, as a tuple of characters.
RECURSIVE NatToStr(_)
NatToStr(n) ==
    IF n < 10 THEN <<DigitChars[n + 1]>>
    ELSE NatToStr(n \div 10) \o <<DigitChars[(n % 10) + 1]>>

IntToStr(n) == IF n < 0 THEN <<"-">> \o NatToStr(-n) ELSE NatToStr(n)

(***************************************************************************)
(* Python values.  [t |-> type, v |-> value]:                               *)
(*   "absent"  the key is not in the dictionary                             *)
(*   "none"    None                                                         *)
(*   "str"     a str compared as a whole, v a TLA+ string                   *)
(*   "text"    a str read character by character, v a tuple of characters   *)
(*   "int"     v the integer;  "bool"  v = 0 or 1                           *)
(*   "float"   v the value in tenths (37 is 3.7); "inf" float('inf')        *)
(*   "list"    v a tuple of values                                          *)
(***************************************************************************)

Absent == [t |-> "absent", v |-> 0]
PyNone == [t |-> "none", v |-> 0]
PyStr(s) == [t |-> "str", v |-> s]
PyText(s) == [t |-> "text", v |-> s]
PyInt(n) == [t |-> "int", v |-> n]
PyBool(b) == [t |-> "bool", v |-> IF b THEN 1 ELSE 0]
PyFloat(tenths) == [t |-> "float", v |-> tenths]
PyInf == [t |-> "inf", v |-> 0]
PyList(xs) == [t |-> "list", v |-> xs]

\* d.get(key, default) on a dictionary held as a record of values.
Get(d, key, default) == IF d[key].t = "absent" THEN default ELSE d[key]

\* The characters of s without leading and trailing blanks (str.strip()).
RECURSIVE Strip(_)
Strip(s) ==
    IF s = <<>> THEN s
    ELSE IF s[1] = " " THEN Strip(Tail(s))
    ELSE IF s[Len(s)] = " " THEN Strip(SubSeq(s, 1, Len(s) - 1))
    ELSE s

RECURSIVE DigitsValue(_)
DigitsValue(s) ==
    IF s = <<>> THEN 0
    ELSE DigitsValue(SubSeq(s, 1, Len(s) - 1)) * 10 + DigitValue(s[Len(s)])

AllDigits(s) == s # <<>> /\ \A i \in 1..Len(s) : IsDigit(s[i])

\* int(x) for a str x: blanks stripped, an optional sign, then digits only;
\* anything else raises ValueError.  [ok, val].
ParseInt(s) ==
    LET u == Strip(s)
        signed == u # <<>> /\ u[1] \in {"+", "-"}
        body == IF signed THEN Tail(u) ELSE u
    IN  IF AllDigits(body)
        THEN [ok |-> TRUE,
              val |-> IF signed /\ u[1] = "-" THEN -DigitsValue(body)
                      ELSE DigitsValue(body)]
        ELSE [ok |-> FALSE, val |-> 0]

\* str(x) of a scalar, for the values tags hold.
StrOf(x) ==
    CASE x.t = "str" -> x.v
      [] x.t = "int" -> ToString(x.v)
      [] x.t = "bool" -> IF x.v = 1 THEN "True" ELSE "False"
      [] x.t = "none" -> "None"
      [] OTHER -> "<object>"

(***************************************************************************)
(* types.py: ResultMeta, Action, TraceState, PolicyResult                   *)
(***************************************************************************)

\* ResultMeta.from_dict._to_int: int(x), 0 when int() raises.
ToInt(x) ==
    CASE x.t = "int" -> x.v
      [] x.t = "bool" -> x.v
      [] x.t = "float" -> IF x.v >= 0 THEN x.v \div 10 ELSE -((-x.v) \div 10)
      [] x.t = "text" -> IF ParseInt(x.v).ok THEN ParseInt(x.v).val ELSE 0
      [] OTHER -> 0

Sensitivities == {"low", "medium", "high"}
EgressDirections == {"internal", "external"}

\* The keys of result_meta the code reads.
MetaKeys == {"sensitivity", "tags", "rows", "bytes", "egress", "destination"}

\* An empty dictionary ({} and None normalise alike: d = d or {}).
EmptyDict == [k \in MetaKeys |-> Absent]

\* ResultMeta.from_dict
FromDict(d) ==
    LET rawSens == Get(d, "sensitivity", PyStr("low"))
        sens == IF rawSens.t = "str" /\ rawSens.v \in Sensitivities
                THEN rawSens.v ELSE "low"
        rawEgr == Get(d, "egress", PyStr("internal"))
        egr == IF rawEgr.t = "str" /\ rawEgr.v \in EgressDirections
               THEN rawEgr.v ELSE "internal"
        rawTags == Get(d, "tags", PyList(<<>>))
        tags0 == IF rawTags.t = "none" THEN PyList(<<>>) ELSE rawTags
        tags1 == IF tags0.t # "list" THEN <<tags0>> ELSE tags0.v
        rawDest == d["destination"]
    IN  [sensitivity |-> sens,
         tags |-> [i \in 1..Len(tags1) |-> StrOf(tags1[i])],
         rows |-> ToInt(Get(d, "rows", PyInt(0))),
         bytes |-> ToInt(Get(d, "bytes", PyInt(0))),
         egress |-> egr,
         destination |-> IF rawDest.t \in {"absent", "none"} THEN ""
                         ELSE StrOf(rawDest)]

\* to_dict leaving out the egress entry.
ToDict_WithoutEgress(m) ==
    [k \in MetaKeys |->
        CASE k = "sensitivity" -> PyStr(m.sensitivity)
          [] k = "tags" -> PyList([i \in 1..Len(m.tags) |-> PyStr(m.tags[i])])
          [] k = "rows" -> PyInt(m.rows)
          [] k = "bytes" -> PyInt(m.bytes)
          [] k = "egress" -> Absent
          [] k = "destination" -> PyStr(m.destination)]

\* ResultMeta.to_dict
ToDict(m) ==
    [k \in MetaKeys |->
        CASE k = "sensitivity" -> PyStr(m.sensitivity)
          [] k = "tags" -> PyList([i \in 1..Len(m.tags) |-> PyStr(m.tags[i])])
          [] k = "rows" -> PyInt(m.rows)
          [] k = "bytes" -> PyInt(m.bytes)
          [] k = "egress" -> PyStr(m.egress)
          [] k = "destination" -> PyStr(m.destination)]

\* Action(tool, resource, operation, result_meta)
MkAction(tool, resource, meta) ==
    [tool |-> tool, resource |-> resource, operation |-> "read", result_meta |-> meta]

\* Action.normalized_meta
NormalizedMeta(a) == FromDict(a.result_meta)

\* Action.normalize_meta: the action after the in-place normalisation.
NormalizeMeta(a) == [a EXCEPT !.result_meta = ToDict(NormalizedMeta(a))]

\* TraceState(trace_id): the dataclass defaults.
NewTraceState(trace_id) ==
    [trace_id |-> trace_id, seen_sources |-> <<>>, max_sensitivity |-> "low",
     volume_rows |-> 0, volume_bytes |-> 0, egress |-> "internal", tags |-> <<>>]

\* None, for the Optional[str] fields of PolicyResult.
NoneValue == "<None>"

(***************************************************************************)
(* denylist.py: regular expressions (re.compile(p, re.IGNORECASE).search)   *)
(* in the subset the built-in patterns use: literal characters, "." for any *)
(* character, a postfix "*" and a top-level "|".  "(" stands for a pattern  *)
(* re.compile rejects (an unbalanced parenthesis).                          *)
(***************************************************************************)

\* Whether re.compile accepts the alternative alt (no "|" in it).
AltCompiles(alt) ==
    /\ \A i \in 1..Len(alt) : alt[i] \notin {"(", ")"}
    /\ \A i \in 1..Len(alt) : alt[i] = "*" => (i > 1 /\ alt[i - 1] # "*")

\* Whether re.compile(p) succeeds; it raises re.error otherwise.
RegexCompiles(p) ==
    \A k \in 1..Len(Split(p, "|")) : AltCompiles(Split(p, "|")[k])

\* A compiled alternative is a tuple of atoms [any, chars, min, max]: a
\* character class (any character, or one of chars) repeated min to max
\* times, max = -1 for no upper limit.
Atom(any, chars, min, max) == [any |-> any, chars |-> chars, min |-> min, max |-> max]

RECURSIVE CompileAlt(_)
CompileAlt(alt) ==
    IF alt = <<>> THEN <<>>
    ELSE IF Len(alt) >= 2 /\ alt[2] = "*"
    THEN <<Atom(alt[1] = ".", {alt[1]}, 0, -1)>> \o CompileAlt(SubSeq(alt, 3, Len(alt)))
    ELSE <<Atom(alt[1] = ".", {alt[1]}, 1, 1)>> \o CompileAlt(Tail(alt))

\* re.compile(p): the alternatives of p, in order.
Compile(p) == [k \in 1..Len(Split(p, "|")) |-> CompileAlt(Split(p, "|")[k])]

\* One atom against one subject character; ic is re.IGNORECASE.
AtomMatches(atom, c, ic) ==
    \/ atom.any
    \/ IF ic THEN \E x \in atom.chars : LowerChar(x) = LowerChar(c)
       ELSE c \in atom.chars

\* The longest run of characters from s[j] on that the atom takes, counted
\* from n up to limit.
RECURSIVE RunFrom(_, _, _, _, _, _)
RunFrom(atom, s, j, ic, n, limit) ==
    IF n < limit /\ AtomMatches(atom, s[j + n], ic)
    THEN RunFrom(atom, s, j, ic, n + 1, limit)
    ELSE n

Run(atom, s, j, ic) ==
    RunFrom(atom, s, j, ic, 0,
            IF atom.max >= 0 /\ atom.max < Len(s) - j + 1
            THEN atom.max ELSE Len(s) - j + 1)

\* The backtracking matcher: where the match of atoms[k..] that starts at
\* s[j] ends (the index after its last character), -1 when there is none.
\* Quantifiers are greedy; a match that ends before floor is rejected.
RECURSIVE MatchEnd(_, _, _, _, _, _), TryCounts(_, _, _, _, _, _, _)
MatchEnd(atoms, k, s, j, ic, floor) ==
    IF k > Len(atoms) THEN (IF j >= floor THEN j ELSE -1)
    ELSE TryCounts(atoms, k, s, j, ic, floor, Run(atoms[k], s, j, ic))

TryCounts(atoms, k, s, j, ic, floor, n) ==
    IF n < atoms[k].min THEN -1
    ELSE LET e == MatchEnd(atoms, k + 1, s, j + n, ic, floor)
         IN  IF e # -1 THEN e
             ELSE TryCounts(atoms, k, s, j, ic, floor, n - 1)

\* The match of a compiled pattern at s[j]: the first alternative that
\* matches decides.  -1 when none does.
RECURSIVE MatchAltFrom(_, _, _, _, _, _)
MatchAltFrom(alts, k, s, j, ic, floor) ==
    IF k > Len(alts) THEN -1
    ELSE LET e == MatchEnd(alts[k], 1, s, j, ic, floor)
         IN  IF e # -1 THEN e ELSE MatchAltFrom(alts, k + 1, s, j, ic, floor)

MatchAt(alts, s, j, ic, floor) == MatchAltFrom(alts, 1, s, j, ic, floor)

\* re.compile(p, re.IGNORECASE): the compiled pattern keeps its text.
CompilePattern(p) == [pattern |-> p, alts |-> Compile(p)]

\* compiled.search(s) is not None, for a pattern compiled with re.IGNORECASE
RegexSearch(compiled, s) ==
    \E j \in 1..(Len(s) + 1) : MatchAt(compiled.alts, s, j, TRUE, j) # -1

(***************************************************************************)
(* denylist.py: pathlib.Path (posix).  A path is the tuple of its parts;    *)
(* the root, when there is one, is the first part.                          *)
(***************************************************************************)

RECURSIVE DropEmptyAndDot(_)
DropEmptyAndDot(parts) ==
    IF parts = <<>> THEN <<>>
    ELSE IF Head(parts) = <<>> \/ Head(parts) = <<".">>
    THEN DropEmptyAndDot(Tail(parts))
    ELSE <<Head(parts)>> \o DropEmptyAndDot(Tail(parts))

\* The root of a path string: "//" for exactly two leading slashes, "/" for
\* any other number of them, none for a relative path.
PathRoot(s) ==
    IF s = <<>> \/ s[1] # "/" THEN <<>>
    ELSE IF Len(s) >= 2 /\ s[2] = "/" /\ (Len(s) = 2 \/ s[3] # "/")
    THEN <<"/", "/">>
    ELSE <<"/">>

\* Path(s)
PathOf(s) ==
    (IF PathRoot(s) = <<>> THEN <<>> ELSE <<PathRoot(s)>>)
    \o DropEmptyAndDot(Split(s, "/"))

HasRoot(parts) == parts # <<>> /\ parts[1][1] = "/"

\* The home directory "~" expands to.
HomeDir == <<"/", "r", "o", "o", "t">>

\* os.path.expanduser of a first part "~" or "~name": the home directory of
\* the user (root is the only user there is), <<>> when there is none.
UserHome(part) ==
    IF part = <<"~">> \/ part = <<"~","r","o","o","t">> THEN HomeDir ELSE <<>>

StartsWithTilde(parts) == parts # <<>> /\ parts[1][1] = "~"

\* Path.expanduser raises RuntimeError("Could not determine home directory.")
\* for a path that starts with "~name" when no user has that name.
ExpandUserRaises(parts) == StartsWithTilde(parts) /\ UserHome(parts[1]) = <<>>

\* Path.expanduser, where it returns.
ExpandUser(parts) ==
    IF StartsWithTilde(parts) /\ UserHome(parts[1]) # <<>>
    THEN PathOf(UserHome(parts[1])) \o Tail(parts)
    ELSE parts

RECURSIVE JoinParts(_)
JoinParts(parts) ==
    IF parts = <<>> THEN <<>>
    ELSE IF Len(parts) = 1 THEN parts[1]
    ELSE parts[1] \o <<"/">> \o JoinParts(Tail(parts))

\* str(path)
PathStr(parts) ==
    IF parts = <<>> THEN <<".">>
    ELSE IF HasRoot(parts) THEN parts[1] \o JoinParts(Tail(parts))
    ELSE JoinParts(parts)

\* fnmatch.fnmatchcase(name, pat) for patterns of literals, "*" and "?":
\* whether pat[i..] matches the whole of name[j..].
RECURSIVE GlobHere(_, _, _, _)
GlobHere(pat, i, name, j) ==
    IF i > Len(pat) THEN j > Len(name)
    ELSE IF pat[i] = "*"
    THEN \/ GlobHere(pat, i + 1, name, j)
         \/ (j <= Len(name) /\ GlobHere(pat, i, name, j + 1))
    ELSE /\ j <= Len(name)
         /\ (pat[i] = "?" \/ pat[i] = name[j])
         /\ GlobHere(pat, i + 1, name, j + 1)

FnMatch(name, pat) == GlobHere(pat, 1, name, 1)

\* PurePath.match(pattern): the pattern's parts against the path's last
\* parts; a rooted pattern must cover the whole path.
PathMatch(parts, pattern) ==
    LET pp == PathOf(pattern)
        n == Len(parts)
        m == Len(pp)
    IN  IF HasRoot(pp)
        THEN /\ HasRoot(parts) /\ parts[1] = pp[1]
             /\ m = n
             /\ \A k \in 2..m : FnMatch(parts[k], pp[k])
        ELSE /\ m <= n
             /\ \A k \in 1..m : FnMatch(parts[n - m + k], pp[k])

(***************************************************************************)
(* denylist.py: Denylist                                                    *)
(***************************************************************************)

DEFAULT_DENYLIST ==
    [urls |-> <<
        \* /checkout
        <<"/","c","h","e","c","k","o","u","t">>,
        \* /payment
        <<"/","p","a","y","m","e","n","t">>,
        \* /billing
        <<"/","b","i","l","l","i","n","g">>,
        \* /subscribe
        <<"/","s","u","b","s","c","r","i","b","e">>,
        \* /cart/confirm
        <<"/","c","a","r","t","/","c","o","n","f","i","r","m">>,
        \* /order/place
        <<"/","o","r","d","e","r","/","p","l","a","c","e">>,
        \* /upgrade
        <<"/","u","p","g","r","a","d","e">>,
        \* stripe.com/checkout
        <<"s","t","r","i","p","e",".","c","o","m","/","c","h","e","c","k","o","u","t">>,
        \* paddle.com/checkout
        <<"p","a","d","d","l","e",".","c","o","m","/","c","h","e","c","k","o","u","t">>,
        \* paypal.com/checkoutnow
        <<"p","a","y","p","a","l",".","c","o","m","/","c","h","e","c","k","o","u","t","n","o","w">>,
        \* buy.stripe.com
        <<"b","u","y",".","s","t","r","i","p","e",".","c","o","m">>,
        \* checkout.stripe.com
        <<"c","h","e","c","k","o","u","t",".","s","t","r","i","p","e",".","c","o","m">>>>,
     files |-> <<
        \* ~/.ssh/id_rsa
        <<"~","/",".","s","s","h","/","i","d","_","r","s","a">>,
        \* ~/.ssh/id_ed25519
        <<"~","/",".","s","s","h","/","i","d","_","e","d","2","5","5","1","9">>,
        \* **/id_rsa
        <<"*","*","/","i","d","_","r","s","a">>,
        \* **/id_ed25519
        <<"*","*","/","i","d","_","e","d","2","5","5","1","9">>,
        \* ~/.aws/credentials
        <<"~","/",".","a","w","s","/","c","r","e","d","e","n","t","i","a","l","s">>,
        \* ~/.aws/config
        <<"~","/",".","a","w","s","/","c","o","n","f","i","g">>,
        \* ~/.config/gcloud/credentials
        <<"~","/",".","c","o","n","f","i","g","/","g","c","l","o","u","d","/","c","r","e","d","e","n","t","i","a","l","s">>,
        \* ~/.azure/credentials
        <<"~","/",".","a","z","u","r","e","/","c","r","e","d","e","n","t","i","a","l","s">>,
        \* **/secrets.json
        <<"*","*","/","s","e","c","r","e","t","s",".","j","s","o","n">>,
        \* **/.env
        <<"*","*","/",".","e","n","v">>,
        \* **/credentials.json
        <<"*","*","/","c","r","e","d","e","n","t","i","a","l","s",".","j","s","o","n">>,
        \* ~/.password-store
        <<"~","/",".","p","a","s","s","w","o","r","d","-","s","t","o","r","e">>,
        \* **/KeePass*.kdbx
        <<"*","*","/","K","e","e","P","a","s","s","*",".","k","d","b","x">>>>,
     commands |-> <<
        \* rm -rf /
        <<"r","m"," ","-","r","f"," ","/">>,
        \* dd if=/dev/zero
        <<"d","d"," ","i","f","=","/","d","e","v","/","z","e","r","o">>,
        \* mkfs
        <<"m","k","f","s">>,
        \* fdisk
        <<"f","d","i","s","k">>,
        \* sudo su
        <<"s","u","d","o"," ","s","u">>,
        \* sudo -i
        <<"s","u","d","o"," ","-","i">>,
        \* curl.*|.*sh
        <<"c","u","r","l",".","*","|",".","*","s","h">>,
        \* wget.*|.*sh
        <<"w","g","e","t",".","*","|",".","*","s","h">>>>]

\* Denylist.is_blocked: the tools whose resources are URLs.
UrlTools ==
    {<<"b","r","o","w","s","e","r","_","n","a","v","i","g","a","t","e">>,
     <<"b","r","o","w","s","e","r">>,
     <<"h","t","t","p","_","g","e","t">>,
     <<"h","t","t","p","_","p","o","s","t">>}

\* Denylist.is_blocked: the tools whose resources are file paths.
FileTools ==
    {<<"f","i","l","e","_","r","e","a","d">>,
     <<"f","i","l","e","_","w","r","i","t","e">>,
     <<"f","i","l","e","_","d","e","l","e","t","e">>}

\* Denylist.is_blocked: the tools whose resources are command lines.
CommandTools ==
    {<<"s","h","e","l","l","_","e","x","e","c">>,
     <<"e","x","e","c">>,
     <<"c","o","m","m","a","n","d">>}

\* A pattern dictionary with the three lists (a missing key reads as []).
Patterns(urls, files, commands) ==
    [urls |-> urls, files |-> files, commands |-> commands]

\* Denylist.__init__: re.compile of every url and command pattern; re.error
\* of the first pattern that does not compile propagates.  [ok, dl].
DenylistInit(patterns) ==
    [ok |-> /\ \A i \in 1..Len(patterns.urls) : RegexCompiles(patterns.urls[i])
            /\ \A i \in 1..Len(patterns.commands) :
                   RegexCompiles(patterns.commands[i]),
     dl |-> [url_patterns |-> [i \in 1..Len(patterns.urls) |->
                                  CompilePattern(patterns.urls[i])],
             file_patterns |-> patterns.files,
             command_patterns |-> [i \in 1..Len(patterns.commands) |->
                                      CompilePattern(patterns.commands[i])]]]

\* Index of the first TRUE of a tuple of booleans, 0 when there is none.
FirstTrue(hits) ==
    IF \E i \in 1..Len(hits) : hits[i]
    THEN CHOOSE i \in 1..Len(hits) : hits[i] /\ \A j \in 1..(i - 1) : ~hits[j]
    ELSE 0

\* A message: a format with the values filled into it.
Msg(fmt, args) == [fmt |-> fmt, args |-> args]

\* Denylist.is_blocked, lines 141-150: whether one file pattern blocks the
\* path expanded = Path(resource).expanduser().
PathBlocked(expanded, pattern) ==
    IF InSeq("*", pattern)
    THEN PathMatch(expanded, pattern)
    ELSE expanded = ExpandUser(PathOf(pattern)) \/ PathStr(expanded) = pattern

FilePatternBlocks(resource, pattern) ==
    PathBlocked(ExpandUser(PathOf(resource)), pattern)

\* is_blocked searching the url patterns whatever the tool is.
IsBlocked_UrlsForAnyTool(dl, resource, tool) ==
    LET expanded == ExpandUser(PathOf(resource))
        u == FirstTrue([i \in 1..Len(dl.url_patterns) |->
                           RegexSearch(dl.url_patterns[i], resource)])
        f == IF tool \in FileTools
             THEN FirstTrue([i \in 1..Len(dl.file_patterns) |->
                                PathBlocked(expanded, dl.file_patterns[i])])
             ELSE 0
        c == IF tool \in CommandTools
             THEN FirstTrue([i \in 1..Len(dl.command_patterns) |->
                                RegexSearch(dl.command_patterns[i], resource)])
             ELSE 0
    IN  IF u # 0
        THEN [blocked |-> TRUE,
              reason |-> Msg("URL matches denylist pattern: {}",
                             <<dl.url_patterns[u].pattern>>)]
        ELSE IF f # 0
        THEN [blocked |-> TRUE,
              reason |-> Msg(IF InSeq("*", dl.file_patterns[f])
                             THEN "File matches denylist pattern: {}"
                             ELSE "File is denylisted: {}",
                             <<dl.file_patterns[f]>>)]
        ELSE IF c # 0
        THEN [blocked |-> TRUE,
              reason |-> Msg("Command matches denylist pattern: {}",
                             <<dl.command_patterns[c].pattern>>)]
        ELSE [blocked |-> FALSE, reason |-> Msg("", <<>>)]

\* Denylist.is_blocked(resource, tool): [blocked, reason]
IsBlocked(dl, resource, tool) ==
    LET expanded == ExpandUser(PathOf(resource))
        u == IF tool \in UrlTools
             THEN FirstTrue([i \in 1..Len(dl.url_patterns) |->
                                RegexSearch(dl.url_patterns[i], resource)])
             ELSE 0
        f == IF tool \in FileTools
             THEN FirstTrue([i \in 1..Len(dl.file_patterns) |->
                                PathBlocked(expanded, dl.file_patterns[i])])
             ELSE 0
        c == IF tool \in CommandTools
             THEN FirstTrue([i \in 1..Len(dl.command_patterns) |->
                                RegexSearch(dl.command_patterns[i], resource)])
             ELSE 0
    IN  IF u # 0
        THEN [blocked |-> TRUE,
              reason |-> Msg("URL matches denylist pattern: {}",
                             <<dl.url_patterns[u].pattern>>)]
        ELSE IF f # 0
        THEN [blocked |-> TRUE,
              reason |-> Msg(IF InSeq("*", dl.file_patterns[f])
                             THEN "File matches denylist pattern: {}"
                             ELSE "File is denylisted: {}",
                             <<dl.file_patterns[f]>>)]
        ELSE IF c # 0
        THEN [blocked |-> TRUE,
              reason |-> Msg("Command matches denylist pattern: {}",
                             <<dl.command_patterns[c].pattern>>)]
        ELSE [blocked |-> FALSE, reason |-> Msg("", <<>>)]

\* Denylist.is_blocked raises instead of returning: expanduser fails on the
\* resource of a file tool (line 141), or on a file pattern (line 143) that
\* is reached because no pattern before it blocks.
IsBlockedRaises(dl, resource, tool) ==
    /\ tool \in FileTools
    /\ \/ ExpandUserRaises(PathOf(resource))
       \/ \E i \in 1..Len(dl.file_patterns) :
              /\ ExpandUserRaises(PathOf(dl.file_patterns[i]))
              /\ \A j \in 1..(i - 1) :
                     ~PathBlocked(ExpandUser(PathOf(resource)), dl.file_patterns[j])

\* The configuration file ~/.chainwatch/denylist.yaml:
\*   "missing"     no such file
\*   "unreadable"  open() raises
\*   "corrupt"     yaml.safe_load raises
\*   "empty"       yaml.safe_load returns None
\*   "list"        well-formed YAML that is no mapping
\*   "dict"        a mapping, patterns its three lists
Config(kind, patterns) == [kind |-> kind, patterns |-> patterns]

NoPatterns == Patterns(<<>>, <<>>, <<>>)

\* Denylist(DEFAULT_DENYLIST)
DefaultDenylist == DenylistInit(DEFAULT_DENYLIST)

\* Denylist({})
EmptyDenylist == DenylistInit(NoPatterns)

\* load falling back to the built-in patterns whenever the file cannot be
\* used.
Load_DefaultsOnFailure(config) ==
    CASE config.kind = "missing" -> DefaultDenylist
      [] config.kind = "empty" -> EmptyDenylist
      [] config.kind = "dict" /\ DenylistInit(config.patterns).ok ->
             DenylistInit(config.patterns)
      [] OTHER -> DefaultDenylist

\* Denylist.to_dict
DenylistToDict(dl) ==
    Patterns([i \in 1..Len(dl.url_patterns) |-> dl.url_patterns[i].pattern],
             dl.file_patterns,
             [i \in 1..Len(dl.command_patterns) |-> dl.command_patterns[i].pattern])

\* The exception Denylist.load lets through: of open (line 94), of
\* yaml.safe_load (line 95), of patterns.get on what is no mapping and of
\* re.compile (lines 78-80).
LoadError(config) ==
    CASE config.kind = "unreadable" -> "PermissionError"
      [] config.kind = "corrupt" -> "YAMLError"
      [] config.kind = "list" -> "AttributeError"
      [] OTHER -> "error"

\* Denylist.load(): [ok, dl]; ok is FALSE when load raises.
Load(config) ==
    CASE config.kind = "missing" -> DefaultDenylist
      [] config.kind = "empty" -> EmptyDenylist
      [] config.kind = "dict" -> DenylistInit(config.patterns)
      [] OTHER -> [ok |-> FALSE, dl |-> EmptyDenylist.dl]

\* A Denylist object.  Its url and command lists are its own (built by the
\* comprehensions of lines 78 and 80); self.file_patterns is the very list
\* patterns.get("files") returned (line 79): the list of DEFAULT_DENYLIST
\* when the object was loaded from the defaults (shared), a list of the
\* caller otherwise.
DenylistObject(dl, shared) ==
    [url_patterns |-> dl.url_patterns,
     shared |-> shared,
     file_patterns |-> IF shared THEN <<>> ELSE dl.file_patterns,
     command_patterns |-> dl.command_patterns]

\* The three lists of the object o as is_blocked and to_dict read them.
Lists(h, o) ==
    [url_patterns |-> o.url_patterns,
     file_patterns |-> IF o.shared THEN h.default_files ELSE o.file_patterns,
     command_patterns |-> o.command_patterns]

\* add_pattern appending the url pattern to the command list as well.
AddPattern_UrlsToCommands(h, i, category, pattern) ==
    LET o == h.objs[i]
    IN  CASE category = "urls" ->
                 [h EXCEPT !.objs[i].url_patterns = Append(@, CompilePattern(pattern)),
                           !.objs[i].command_patterns = Append(@, CompilePattern(pattern))]
          [] category = "commands" ->
                 [h EXCEPT !.objs[i].command_patterns = Append(@, CompilePattern(pattern))]
          [] category = "files" ->
                 IF o.shared
                 THEN [h EXCEPT !.default_files = Append(@, pattern)]
                 ELSE [h EXCEPT !.objs[i].file_patterns = Append(@, pattern)]
          [] OTHER -> h

\* Denylist.add_pattern(category, pattern) on the object h.objs[i], when it
\* returns: the lists afterwards.
AddPattern(h, i, category, pattern) ==
    LET o == h.objs[i]
    IN  CASE category = "urls" ->
                 [h EXCEPT !.objs[i].url_patterns = Append(@, CompilePattern(pattern))]
          [] category = "commands" ->
                 [h EXCEPT !.objs[i].command_patterns = Append(@, CompilePattern(pattern))]
          [] category = "files" ->
                 IF o.shared
                 THEN [h EXCEPT !.default_files = Append(@, pattern)]
                 ELSE [h EXCEPT !.objs[i].file_patterns = Append(@, pattern)]
          [] OTHER -> h

\* What add_pattern raises, "" when it returns: re.error of re.compile
\* (lines 169, 173), ValueError for a category that is none of the three.
AddPatternError(category, pattern) ==
    CASE category \in {"urls", "commands"} ->
             IF RegexCompiles(pattern) THEN "" ELSE "error"
      [] category = "files" -> ""
      [] OTHER -> "ValueError"


(***************************************************************************)
(* policy.py                                                                *)
(***************************************************************************)

\* SENSITIVITY_WEIGHT.get(sensitivity, 1)
SENSITIVITY_WEIGHT(sensitivity) ==
    CASE sensitivity = "low" -> 1
      [] sensitivity = "medium" -> 3
      [] sensitivity = "high" -> 6
      [] OTHER -> 1

RISK_ALLOW_MAX == 5
RISK_REDACT_MAX == 10
RISK_APPROVAL_MIN == 11

\* _risk_score without the second volume step.
RiskScore_OneVolumeStep(meta, state, is_new_source) ==
    SENSITIVITY_WEIGHT(meta.sensitivity)
    + (IF meta.rows > 1000 THEN 3 ELSE 0)
    + (IF is_new_source THEN 2 ELSE 0)
    + (IF meta.egress = "external" THEN 6 ELSE 0)

\* _risk_score with the second volume step assigning 6 instead of adding it.
RiskScore_VolumeResets(meta, state, is_new_source) ==
    (IF meta.rows > 10000 THEN 6
     ELSE SENSITIVITY_WEIGHT(meta.sensitivity) + (IF meta.rows > 1000 THEN 3 ELSE 0))
    + (IF is_new_source THEN 2 ELSE 0)
    + (IF meta.egress = "external" THEN 6 ELSE 0)

\* _risk_score(meta, state, is_new_source)
RiskScore(meta, state, is_new_source) ==
    SENSITIVITY_WEIGHT(meta.sensitivity)
    + (IF meta.rows > 1000 THEN 3 ELSE 0)
    + (IF meta.rows > 10000 THEN 6 ELSE 0)
    + (IF is_new_source THEN 2 ELSE 0)
    + (IF meta.egress = "external" THEN 6 ELSE 0)

\* PolicyResult(decision, reason, redactions, approval_key, output_rewrite,
\* policy_id).  redactions is None (some = FALSE) or a dictionary with the
\* keys "auto", "extra_keys" and "patterns", each present or not.
NoRedactions ==
    [some |-> FALSE, auto |-> FALSE, has_extra_keys |-> FALSE, extra_keys |-> <<>>,
     has_patterns |-> FALSE, patterns |-> <<>>]

AutoRedactions == [NoRedactions EXCEPT !.some = TRUE, !.auto = TRUE]

PolicyResult(decision, reason, redactions, approval_key, policy_id) ==
    [decision |-> decision, reason |-> reason, redactions |-> redactions,
     approval_key |-> approval_key, output_rewrite |-> PyNone,
     policy_id |-> policy_id]

\* evaluate taking the built-in patterns when Denylist.load() raises.
DenylistInForce_DefaultsOnFailure(denylist, config) ==
    IF denylist.some THEN denylist
    ELSE IF Load(config).ok THEN [some |-> TRUE, dl |-> Load(config).dl]
    ELSE [some |-> TRUE, dl |-> DefaultDenylist.dl]

\* evaluate, lines 70-76: the denylist in force; None stays None when
\* Denylist.load() raises.  [some, dl].
DenylistInForce(denylist, config) ==
    IF denylist.some THEN denylist
    ELSE IF Load(config).ok THEN [some |-> TRUE, dl |-> Load(config).dl]
    ELSE denylist

\* evaluate, line 90: the source whose novelty is scored.
PolicySource(action) ==
    IF action.tool # <<>> THEN action.tool ELSE SplitFirst(action.resource, "/")

\* The risk with the novelty flag inverted: a source already seen scores.
EvaluateRisk_SeenScores(action, state) ==
    LET source == PolicySource(action)
        is_new_source == \E i \in 1..Len(state.seen_sources) :
                             state.seen_sources[i] = source
    IN  RiskScore(NormalizedMeta(NormalizeMeta(action)), state, is_new_source)

\* evaluate, lines 87-97: the risk of the action against the trace state.
EvaluateRisk(action, state) ==
    LET source == PolicySource(action)
        is_new_source == \A i \in 1..Len(state.seen_sources) :
                             state.seen_sources[i] # source
    IN  RiskScore(NormalizedMeta(NormalizeMeta(action)), state, is_new_source)

\* The hard rule looking for "salary" in the resource as written.
HardRuleApplies_CaseSensitive(action, purpose) ==
    purpose = "SOC_efficiency"
    /\ Contains(action.resource, <<"s","a","l","a","r","y">>)

\* evaluate, lines 99-111: the purpose-bound hard rule.
HardRuleApplies(action, purpose) ==
    purpose = "SOC_efficiency"
    /\ Contains(Lower(action.resource), <<"s","a","l","a","r","y">>)

\* The decision by risk band with approval asked only above RISK_APPROVAL_MIN.
RiskDecision_ApprovalAbove(risk) ==
    IF risk > RISK_APPROVAL_MIN
    THEN PolicyResult("require_approval",
             Msg("High cumulative risk (risk={}) based on sensitivity, volume, and chain context.",
                 <<IntToStr(risk)>>),
             NoRedactions, "high_risk_action", "risk.high")
    ELSE IF risk > RISK_ALLOW_MAX
    THEN PolicyResult("allow_with_redaction",
             Msg("Moderate risk (risk={}); sensitive fields must be redacted.",
                 <<IntToStr(risk)>>),
             AutoRedactions, NoneValue, "risk.moderate")
    ELSE PolicyResult("allow",
             Msg("Low risk action (risk={}).", <<IntToStr(risk)>>),
             NoRedactions, NoneValue, "risk.low")

\* evaluate, lines 113-138: the decision by risk band.
RiskDecision(risk) ==
    IF risk >= RISK_APPROVAL_MIN
    THEN PolicyResult("require_approval",
             Msg("High cumulative risk (risk={}) based on sensitivity, volume, and chain context.",
                 <<IntToStr(risk)>>),
             NoRedactions, "high_risk_action", "risk.high")
    ELSE IF risk > RISK_ALLOW_MAX
    THEN PolicyResult("allow_with_redaction",
             Msg("Moderate risk (risk={}); sensitive fields must be redacted.",
                 <<IntToStr(risk)>>),
             AutoRedactions, NoneValue, "risk.moderate")
    ELSE PolicyResult("allow",
             Msg("Low risk action (risk={}).", <<IntToStr(risk)>>),
             NoRedactions, NoneValue, "risk.low")

\* evaluate with the hard rule consulted before the denylist.
EvaluateResult_HardRuleFirst(action, state, purpose, denylist, config) ==
    LET inForce == DenylistInForce(denylist, config)
        hit == IsBlocked(inForce.dl, action.resource, action.tool)
    IN  IF HardRuleApplies(action, purpose)
        THEN PolicyResult("require_approval",
                 Msg("Access to salary data is not allowed for SOC efficiency tasks without approval.",
                     <<>>),
                 NoRedactions, "soc_salary_access", "purpose.SOC_efficiency.salary")
        ELSE IF inForce.some /\ hit.blocked
        THEN PolicyResult("deny",
                 Msg("Denylisted: {}", <<hit.reason>>),
                 NoRedactions, NoneValue, "denylist.block")
        ELSE RiskDecision(EvaluateRisk(action, state))

\* evaluate returning the denial without a policy_id (the field's default).
EvaluateResult_DenyWithoutPolicyId(action, state, purpose, denylist, config) ==
    LET inForce == DenylistInForce(denylist, config)
        hit == IsBlocked(inForce.dl, action.resource, action.tool)
    IN  IF inForce.some /\ hit.blocked
        THEN PolicyResult("deny",
                 Msg("Denylisted: {}", <<hit.reason>>),
                 NoRedactions, NoneValue, NoneValue)
        ELSE IF HardRuleApplies(action, purpose)
        THEN PolicyResult("require_approval",
                 Msg("Access to salary data is not allowed for SOC efficiency tasks without approval.",
                     <<>>),
                 NoRedactions, "soc_salary_access", "purpose.SOC_efficiency.salary")
        ELSE RiskDecision(EvaluateRisk(action, state))

\* evaluate(action, state, purpose, denylist): the PolicyResult.  config is
\* the configuration file Denylist.load() would read.
EvaluateResult(action, state, purpose, denylist, config) ==
    LET inForce == DenylistInForce(denylist, config)
        hit == IsBlocked(inForce.dl, action.resource, action.tool)
    IN  IF inForce.some /\ hit.blocked
        THEN PolicyResult("deny",
                 Msg("Denylisted: {}", <<hit.reason>>),
                 NoRedactions, NoneValue, "denylist.block")
        ELSE IF HardRuleApplies(action, purpose)
        THEN PolicyResult("require_approval",
                 Msg("Access to salary data is not allowed for SOC efficiency tasks without approval.",
                     <<>>),
                 NoRedactions, "soc_salary_access", "purpose.SOC_efficiency.salary")
        ELSE RiskDecision(EvaluateRisk(action, state))

\* evaluate raises what Denylist.is_blocked raises (lines 78-79 are outside
\* the try).
EvaluateRaises(action, denylist, config) ==
    LET inForce == DenylistInForce(denylist, config)
    IN  inForce.some /\ IsBlockedRaises(inForce.dl, action.resource, action.tool)

\* evaluate: the action as evaluate leaves it (normalised in place at line
\* 87, unless the denylist returned first).
EvaluateAction(action, denylist, config) ==
    LET inForce == DenylistInForce(denylist, config)
    IN  IF inForce.some /\ IsBlocked(inForce.dl, action.resource, action.tool).blocked
        THEN action
        ELSE NormalizeMeta(action)


(***************************************************************************)
(* tracer.py: TraceAccumulator                                              *)
(***************************************************************************)

\* SENS_RANK.get(sensitivity, 0)
SENS_RANK(sensitivity) ==
    CASE sensitivity = "low" -> 0
      [] sensitivity = "medium" -> 1
      [] sensitivity = "high" -> 2
      [] OTHER -> 0

\* TraceAccumulator._source_for
SourceFor(action) ==
    IF action.tool # <<>> THEN action.tool
    ELSE IF action.resource # <<>> /\ InSeq("/", action.resource)
    THEN SplitFirst(action.resource, "/")
    ELSE IF action.resource # <<>> THEN action.resource
    ELSE <<"u","n","k","n","o","w","n">>

\* The tags appended without looking whether they are there.
MergeTags_AppendsAll(tags, new) == tags \o new

\* update_state_from_action, lines 93-95: the tags merged one by one.
RECURSIVE MergeTags(_, _)
MergeTags(tags, new) ==
    IF new = <<>> THEN tags
    ELSE MergeTags(IF InSeq(Head(new), tags) THEN tags ELSE Append(tags, Head(new)),
                   Tail(new))

\* The state update keeping the sensitivity of the last action, whatever
\* its rank.
UpdateState_LastSensitivity(st, action) ==
    LET meta == NormalizedMeta(NormalizeMeta(action))
        source == SourceFor(action)
    IN  [trace_id |-> st.trace_id,
         seen_sources |-> IF InSeq(source, st.seen_sources) THEN st.seen_sources
                          ELSE Append(st.seen_sources, source),
         max_sensitivity |-> meta.sensitivity,
         volume_rows |-> st.volume_rows + meta.rows,
         volume_bytes |-> st.volume_bytes + meta.bytes,
         egress |-> IF st.egress # "external" /\ meta.egress = "external"
                    THEN "external" ELSE st.egress,
         tags |-> MergeTags(st.tags, meta.tags)]

\* TraceAccumulator.update_state_from_action: the trace state after it.
UpdateState(st, action) ==
    LET meta == NormalizedMeta(NormalizeMeta(action))
        source == SourceFor(action)
    IN  [trace_id |-> st.trace_id,
         seen_sources |-> IF InSeq(source, st.seen_sources) THEN st.seen_sources
                          ELSE Append(st.seen_sources, source),
         max_sensitivity |-> IF SENS_RANK(meta.sensitivity) > SENS_RANK(st.max_sensitivity)
                             THEN meta.sensitivity ELSE st.max_sensitivity,
         volume_rows |-> st.volume_rows + meta.rows,
         volume_bytes |-> st.volume_bytes + meta.bytes,
         egress |-> IF st.egress # "external" /\ meta.egress = "external"
                    THEN "external" ELSE st.egress,
         tags |-> MergeTags(st.tags, meta.tags)]

\* record_action ignoring update_state: the state is always updated.
RecordState_AlwaysUpdates(st, action, update_state) == UpdateState(st, action)

\* record_action, lines 166-168: the trace state after the optional update.
RecordState(st, action, update_state) ==
    IF update_state THEN UpdateState(st, action) ELSE st

\* record putting the event at the head of the log.
Record_AtHead(evs, event) == <<event>> \o evs

\* TraceAccumulator.record: the log after self.events.append(event).
Record(evs, event) == Append(evs, event)

\* An Event as a value a call returns.
PyEvent(ev) == [t |-> "event", v |-> ev]

\* TraceAccumulator.build_event (the timestamp is left out).
BuildEvent(st, span_id, parent_span_id, actor, purpose, action, decision) ==
    LET meta == NormalizedMeta(NormalizeMeta(action))
    IN  [trace_id |-> st.trace_id,
         span_id |-> span_id,
         parent_span_id |-> parent_span_id,
         actor |-> actor,
         purpose |-> purpose,
         action |-> [type |-> "tool_call", tool |-> action.tool,
                     resource |-> action.resource, operation |-> action.operation],
         data |-> [classification |-> meta.sensitivity, tags |-> meta.tags,
                   volume |-> [rows |-> meta.rows, bytes |-> meta.bytes]],
         egress |-> [direction |-> meta.egress, destination |-> meta.destination],
         decision |-> decision]


(***************************************************************************)
(* redaction.py.  A payload is a Python value; besides the scalar types it  *)
(* may be a "dict" (v a function from keys to values) or a "list".  The     *)
(* strings of a payload are of type "text".                                 *)
(***************************************************************************)

PyDict(f) == [t |-> "dict", v |-> f]

MaskChars == <<"*", "*", "*">>

\* MASK = "***"
MASK == PyText(MaskChars)

DEFAULT_PII_KEYS ==
    {"name", "first_name", "last_name", "full_name", "email", "phone",
     "address", "ssn", "passport", "dob"}

\* mask_value masking numbers and booleans as well.
MaskValue_MasksNumbers(v) == IF v.t = "none" THEN PyNone ELSE MASK

\* mask_value
MaskValue(v) ==
    IF v.t = "none" THEN PyNone
    ELSE IF v.t \in {"int", "float", "inf", "bool"} THEN v
    ELSE MASK

\* set(extra_keys) when extra_keys is given and not empty
KeySet(extra_keys) == {extra_keys[i] : i \in 1..Len(extra_keys)}

\* redact_auto masking the keys of the outermost record only.
RedactWith_TopLevel(obj, keys) ==
    IF obj.t = "dict"
    THEN PyDict([k \in DOMAIN obj.v |->
                    IF k \in keys THEN MaskValue(obj.v[k]) ELSE obj.v[k]])
    ELSE obj

\* redact_auto(obj, extra_keys), keys = DEFAULT_PII_KEYS | set(extra_keys)
RECURSIVE RedactWith(_, _)
RedactWith(obj, keys) ==
    IF obj.t = "dict"
    THEN PyDict([k \in DOMAIN obj.v |->
                    IF k \in keys THEN MaskValue(obj.v[k])
                    ELSE RedactWith(obj.v[k], keys)])
    ELSE IF obj.t = "list"
    THEN PyList([i \in 1..Len(obj.v) |-> RedactWith(obj.v[i], keys)])
    ELSE obj

\* redact_auto masking every payload that is no dictionary, list, number
\* or null.
RedactAuto_MasksScalars(obj, extra_keys) ==
    IF obj.t \in {"dict", "list"}
    THEN RedactWith(obj, DEFAULT_PII_KEYS \cup KeySet(extra_keys))
    ELSE MaskValue(obj)

RedactAuto(obj, extra_keys) == RedactWith(obj, DEFAULT_PII_KEYS \cup KeySet(extra_keys))

LowerLetters == {UpperToLower[c] : c \in DOMAIN UpperToLower}
Letters == LowerLetters \cup DOMAIN UpperToLower
Digits == {DigitChars[d] : d \in 1..10}

\* [A-Za-z0-9._%+-]+@[A-Za-z0-9.-]+\.[A-Za-z]{2,}
EmailRegex ==
    << << Atom(FALSE, Letters \cup Digits \cup {".", "_", "%", "+", "-"}, 1, -1),
          Atom(FALSE, {"@"}, 1, 1),
          Atom(FALSE, Letters \cup Digits \cup {".", "-"}, 1, -1),
          Atom(FALSE, {"."}, 1, 1),
          Atom(FALSE, Letters, 2, -1) >> >>

\* \+?\d[\d\-\s]{7,}\d
PhoneRegex ==
    << << Atom(FALSE, {"+"}, 0, 1),
          Atom(FALSE, Digits, 1, 1),
          Atom(FALSE, Digits \cup {"-", " "}, 7, -1),
          Atom(FALSE, Digits, 1, 1) >> >>

\* re.sub(pattern, MASK, s) from index j on: every match replaced, leftmost
\* first; after an empty match the next one must be longer or start later.
RECURSIVE SubFrom(_, _, _, _)
SubFrom(alts, s, j, must_advance) ==
    LET ends == [i \in j..(Len(s) + 1) |->
                    MatchAt(alts, s, i, FALSE,
                            IF must_advance /\ i = j THEN i + 1 ELSE i)]
    IN  IF \E i \in j..(Len(s) + 1) : ends[i] # -1
        THEN LET b == CHOOSE i \in j..(Len(s) + 1) :
                          ends[i] # -1 /\ \A h \in j..(i - 1) : ends[h] = -1
             IN  SubSeq(s, j, b - 1) \o MaskChars
                 \o SubFrom(alts, s, ends[b], ends[b] = b)
        ELSE SubSeq(s, j, Len(s))

Sub(alts, s) == SubFrom(alts, s, 1, FALSE)

\* rewrite_output_text, lines 78-80: the caller's patterns applied in order;
\* re.sub raises re.error at the first pattern that does not compile.
RECURSIVE SubAll(_, _)
SubAll(patterns, s) ==
    IF patterns = <<>> THEN [ok |-> TRUE, text |-> s]
    ELSE IF ~RegexCompiles(Head(patterns)) THEN [ok |-> FALSE, text |-> s]
    ELSE SubAll(Tail(patterns), Sub(Compile(Head(patterns)), s))

\* rewrite_output_text(text, patterns): [ok, text]
RewriteOutputText(text, patterns) ==
    SubAll(patterns, Sub(PhoneRegex, Sub(EmailRegex, text)))

(***************************************************************************)
(* enforcement.py                                                           *)
(***************************************************************************)

Returned(value) ==
    [raised |-> FALSE, exc |-> "", msg |-> Msg("", <<>>), value |-> value]

Raised(exc, msg) ==
    [raised |-> TRUE, exc |-> exc, msg |-> msg, value |-> PyNone]

\* enforce failing on deny only and handing the payload over otherwise.
Enforce_OnlyDenyFails(result, data) ==
    IF result.decision = "deny"
    THEN Raised("EnforcementError", result.reason)
    ELSE Returned(data)

\* enforce(result, data): what it returns or raises.
Enforce(result, data) ==
    IF result.decision = "deny"
    THEN Raised("EnforcementError", result.reason)
    ELSE IF result.decision = "allow"
    THEN Returned(data)
    ELSE IF result.decision = "allow_with_redaction"
    THEN Returned(RedactAuto(data,
             IF result.redactions.some /\ result.redactions.has_extra_keys
             THEN result.redactions.extra_keys ELSE <<>>))
    ELSE IF result.decision = "require_approval"
    THEN Raised("EnforcementError",
                Msg("Approval required: {} ({})",
                    <<result.approval_key, result.reason>>))
    ELSE IF result.decision = "rewrite_output"
    THEN IF data.t = "text"
         THEN LET out == RewriteOutputText(data.v,
                             IF result.redactions.some /\ result.redactions.has_patterns
                             THEN result.redactions.patterns ELSE <<>>)
              IN  IF out.ok THEN Returned(PyText(out.text))
                  ELSE Raised("re.error", Msg("", <<>>))
         ELSE Returned(IF result.output_rewrite.t = "none"
                       THEN PyText(<<>>) ELSE result.output_rewrite)
    ELSE Returned(data)


(***************************************************************************)
(* wrappers/file_ops.py: FileGuard                                          *)
(***************************************************************************)

\* _guarded_open, line 84: the modes whose open is intercepted.
InterceptsMode(mode) == InSeq("r", mode) /\ ~InSeq("b", mode)

\* _build_action_from_path, lines 177-190: the words that classify a path.
HighWords ==
    {<<"h","r">>, <<"e","m","p","l","o","y","e","e">>, <<"s","a","l","a","r","y">>,
     <<"p","a","y","r","o","l","l">>, <<"p","i","i">>, <<"s","s","n">>,
     <<"p","a","s","s","p","o","r","t">>}

MediumWords ==
    {<<"s","i","e","m">>, <<"i","n","c","i","d","e","n","t">>,
     <<"s","e","c","u","r","i","t","y">>}

\* _build_action_from_path, lines 171-190: [sensitivity, tags] of a path.
ClassifyPath(filepath) ==
    LET lower_path == Lower(filepath)
        hr == Contains(lower_path, <<"h","r">>)
                  \/ Contains(lower_path, <<"e","m","p","l","o","y","e","e">>)
        pii == \E w \in {<<"p","i","i">>, <<"s","s","n">>,
                          <<"p","a","s","s","p","o","r","t">>} :
                   Contains(lower_path, w)
    IN  IF \E w \in HighWords : Contains(lower_path, w)
        THEN [sensitivity |-> "high",
              tags |-> (IF hr THEN <<PyStr("HR")>> ELSE <<>>)
                       \o (IF pii THEN <<PyStr("PII")>> ELSE <<>>)]
        ELSE IF \E w \in MediumWords : Contains(lower_path, w)
        THEN [sensitivity |-> "medium", tags |-> <<PyStr("security")>>]
        ELSE [sensitivity |-> "low", tags |-> <<>>]

\* _build_action_from_path(filepath): the Action, normalised; file_bytes is
\* what os.path.getsize gave, 0 when the file does not exist.
BuildActionFromPath(filepath, file_bytes) ==
    LET c == ClassifyPath(filepath)
    IN  NormalizeMeta(MkAction(<<"f","i","l","e","_","r","e","a","d">>, filepath,
            [k \in MetaKeys |->
                CASE k = "sensitivity" -> PyStr(c.sensitivity)
                  [] k = "tags" -> PyList(c.tags)
                  [] k = "bytes" -> PyInt(file_bytes)
                  [] k = "rows" -> PyInt(0)
                  [] k = "egress" -> PyStr("internal")
                  [] k = "destination" -> PyStr("localhost")]))

\* _enforce_read, lines 144-149: the decision dictionary of the event.
DecisionDict(r) ==
    [result |-> r.decision, reason |-> r.reason, policy_id |-> r.policy_id,
     approval_key |-> r.approval_key]

\* _enforce_read(filepath, read_fn) on a guard whose tracer holds (st, evs).
\* config is the denylist file evaluate loads, span_id what new_span_id()
\* gives, read what read_fn() does when it is called.  The result: the
\* tracer afterwards, the Action and PolicyResult built, what the caller
\* gets, whether read_fn was called, and the calls made, in order.
EnforceRead(st, evs, purpose, actor, filepath, file_bytes, config, span_id, read) ==
    LET a == BuildActionFromPath(filepath, file_bytes)
        none == [some |-> FALSE, dl |-> EmptyDenylist.dl]
        r == EvaluateResult(a, st, purpose, none, config)
        a2 == EvaluateAction(a, none, config)
        st2 == UpdateState(st, a2)
        ev == BuildEvent(st2, span_id, NoneValue, actor, purpose, a2, DecisionDict(r))
    IN  IF EvaluateRaises(a, none, config)
        THEN [state |-> st, events |-> evs, action |-> a,
              result |-> PolicyResult("", Msg("", <<>>), NoRedactions, NoneValue,
                                      NoneValue),
              outcome |-> Raised("RuntimeError",
                                 Msg("Could not determine home directory.", <<>>)),
              invoked |-> FALSE,
              trail |-> <<"evaluate">>]
        ELSE [state |-> st2, events |-> Append(evs, ev), action |-> NormalizeMeta(a2),
              result |-> r,
              outcome |-> IF read.raised THEN read ELSE Enforce(r, read.value),
              invoked |-> TRUE,
              trail |-> IF read.raised
                        THEN <<"evaluate", "record_action", "read_fn">>
                        ELSE <<"evaluate", "record_action", "read_fn", "enforce">>]


(***************************************************************************)
(* The values the operations are called with.                               *)
(***************************************************************************)

s_hr_api == <<"h","r","_","a","p","i">>
s_org_chart == <<"o","r","g","_","c","h","a","r","t">>
s_file_read == <<"f","i","l","e","_","r","e","a","d">>
s_http_post == <<"h","t","t","p","_","p","o","s","t">>
s_shell_exec == <<"s","h","e","l","l","_","e","x","e","c">>
s_hr_salary == <<"h","r","/","s","a","l","a","r","y">>
s_HR_Salary == <<"H","R","/","S","a","l","a","r","y">>
s_salary == <<"s","a","l","a","r","y">>
s_org_read == <<"o","r","g","/","r","e","a","d">>
s_checkout_url == <<"x",".","c","o","/","c","h","e","c","k","o","u","t">>
s_id_rsa_path == <<"/","k","/","i","d","_","r","s","a">>
s_rm_rf == <<"r","m"," ","-","r","f"," ","/">>
\* A path under the home of a user the system does not have.
p_ghost == <<"~","g","h","o","s","t","/","x">>

Purposes == {"SOC_efficiency", "test"}

\* A result_meta dictionary with the given entries (Absent: no such key).
Meta(sensitivity, rows, bytes, egress, tags) ==
    [k \in MetaKeys |->
        CASE k = "sensitivity" -> sensitivity
          [] k = "rows" -> rows
          [] k = "bytes" -> bytes
          [] k = "egress" -> egress
          [] k = "tags" -> tags
          [] k = "destination" -> Absent]

\* A denylist the caller supplies: a pattern in each category; the url
\* pattern also matches a salary resource.
CustomPatterns ==
    Patterns(<< s_salary, <<"/","c","h","e","c","k","o","u","t">> >>,
             << <<"*","*","/","i","d","_","r","s","a">> >>,
             << <<"r","m"," ","-","r","f">> >>)

\* denylist=None
NoDenylist == [some |-> FALSE, dl |-> EmptyDenylist.dl]

SomeDenylist(patterns) == [some |-> TRUE, dl |-> DenylistInit(patterns).dl]

\* The configuration files: missing, unparseable, unreadable, one that
\* lists a single command pattern, and one whose pattern does not compile.
Configs ==
    {Config("missing", NoPatterns),
     Config("corrupt", NoPatterns),
     Config("unreadable", NoPatterns),
     Config("dict", Patterns(<<>>, <<>>, << <<"r","m"," ","-","r","f">> >>)),
     Config("dict", Patterns(<<>>, <<>>, << <<"(">> >>))}

\* What a caller passes as denylist: none, or Denylist(patterns).
DenylistArg(some, patterns) == [some |-> some, patterns |-> patterns]

\* The Denylist object evaluate receives for such an argument.
Supplied(arg) == IF arg.some THEN SomeDenylist(arg.patterns) ELSE NoDenylist

\* The (denylist argument, configuration file) pairs of an evaluate call;
\* the file is read only when no denylist is supplied.
DenylistArgs ==
    {<<DenylistArg(FALSE, NoPatterns), c>> : c \in Configs}
    \cup {<<DenylistArg(TRUE, CustomPatterns), Config("missing", NoPatterns)>>,
          <<DenylistArg(TRUE, NoPatterns), Config("missing", NoPatterns)>>}

\* The pairs evaluated while a trace is being recorded.
TraceDenylistArgs ==
    {<<DenylistArg(TRUE, CustomPatterns), Config("missing", NoPatterns)>>}

\* The actions fed to the accumulator: a tested HR read, an action without
\* a tool and with rows given as text, an external post with malformed
\* metadata and negative volume, a bulk read with a repeated tag, and an
\* action with neither tool nor resource.
TraceActions ==
    {MkAction(s_hr_api, s_hr_salary,
              Meta(PyStr("high"), PyInt(50), PyInt(10), Absent,
                   PyList(<<PyStr("HR"), PyStr("PII")>>))),
     MkAction(<<>>, s_hr_salary,
              Meta(PyStr("medium"), PyText(<<"1","2">>), Absent, PyStr("external"),
                   Absent)),
     MkAction(s_http_post, s_checkout_url,
              Meta(PyStr("secret"), PyInt(-5), PyInt(-7), PyStr("external"),
                   PyStr("HR"))),
     MkAction(s_org_chart, s_org_read,
              Meta(PyStr("low"), PyInt(10001), PyFloat(25), PyStr("internal"),
                   PyList(<<PyStr("PII"), PyStr("PII")>>))),
     MkAction(<<>>, <<>>, Meta(PyNone, PyNone, Absent, Absent, PyNone))}

\* The (tool, resource) pairs of the actions evaluated.
ToolResources ==
    {<<s_hr_api, s_hr_salary>>, <<s_hr_api, s_HR_Salary>>, <<<<>>, s_hr_salary>>,
     <<s_http_post, s_hr_salary>>, <<s_file_read, s_id_rsa_path>>,
     <<s_shell_exec, s_rm_rf>>, <<s_org_chart, s_org_read>>,
     <<s_http_post, s_checkout_url>>, <<s_file_read, p_ghost>>}

RawSensitivities == {Absent, PyStr("medium"), PyStr("high")}

RawRows == {Absent, PyInt(1000), PyInt(1001), PyInt(10000), PyInt(10001)}

RawEgress == {Absent, PyStr("external")}

\* The actions evaluated: every pair with every metadata.
PolicyActions ==
    {MkAction(tr[1], tr[2], Meta(s, r, Absent, e, Absent)) :
        tr \in ToolResources, s \in RawSensitivities, r \in RawRows, e \in RawEgress}

\* The actions recorded between evaluations, so that sources have been seen.
SeedActions ==
    {MkAction(s_hr_api, s_org_read, EmptyDict),
     MkAction(<<>>, s_hr_salary, EmptyDict)}

\* The (action, decision dictionary) pairs record_action is given: an HR
\* read that was allowed and an external post that was denied.
Recorded ==
    {<<MkAction(s_hr_api, s_hr_salary,
                Meta(PyStr("high"), PyInt(50), PyInt(10), Absent,
                     PyList(<<PyStr("HR"), PyStr("PII")>>))),
       [result |-> "allow", reason |-> "Low risk"]>>,
     <<MkAction(s_http_post, s_checkout_url,
                Meta(PyStr("secret"), PyInt(-5), PyInt(-7), PyStr("external"),
                     PyStr("HR"))),
       [result |-> "deny", reason |-> "Denied"]>>}

\* new_span_id(): "s-" and eight hexadecimal digits of a uuid4.
NewSpanIds == {"s-0a1b2c3d", "s-9f8e7d6c"}

\* span_id as the caller gives it; None asks for a new one.
SpanArgs == {"s-1", NoneValue}


\* The files read under a FileGuard: a salary file, a private key the
\* built-in denylist names, a file of no particular kind, a security log,
\* and a path in the home directory of a user that does not exist.
p_salary_csv == <<"h","r","/","s","a","l","a","r","y",".","c","s","v">>
p_id_rsa == <<"~","/",".","s","s","h","/","i","d","_","r","s","a">>
p_notes == <<"n","o","t","e","s">>
p_siem_log == <<"s","i","e","m",".","l","o","g">>

\* The file object open returns, and the text and bytes read_text and
\* read_bytes return.
FileObject(filepath) == [t |-> "file", v |-> filepath]

FileBytes(content) == [t |-> "bytes", v |-> content]

FileContent == <<"n","a","m","e",",","p","a","y">>

\* The payloads handed to the redaction and enforcement operations: the
\* record of the tests and the documentation, a record whose PII keys hold
\* numbers, a null and a boolean beside a nested record, a record with a
\* nested record and a list
\* under other keys, a list of records, a record whose PII keys hold a record
\* and a list, an empty record, two texts, a number and a null, and what a
\* FileGuard hands to enforce: a file object, the text and the bytes of a file.
t_Alice == PyText(<<"A","l","i","c","e">>)
t_Eng == PyText(<<"E","n","g">>)
t_mail == PyText(<<"t","o"," ","a","@","b",".","c","o">>)
t_call == PyText(<<"c","a","l","l"," ","5","5","5","-","1","2","3","-","4","5","6","7">>)

Payloads ==
    {PyDict("name" :> t_Alice @@ "phone" :> PyText(<<"5","5","5","-","1","2","3","4">>) @@ "team" :> t_Eng),
     PyDict("ssn" :> PyInt(123) @@ "dob" :> PyNone @@ "email" :> PyBool(TRUE)
            @@ "phone" :> PyFloat(15) @@ "team" :> t_Eng
            @@ "manager" :> PyDict("name" :> t_Alice @@ "level" :> PyInt(3))),
     PyDict("team" :> t_Eng
            @@ "manager" :> PyDict("name" :> t_Alice @@ "level" :> PyInt(3))
            @@ "staff" :> PyList(<<PyDict("email" :> t_mail), t_Eng>>)),
     PyList(<<PyDict("name" :> t_Alice @@ "team" :> t_Eng), t_Alice, PyInt(5)>>),
     PyDict("address" :> PyDict("city" :> t_Eng) @@ "name" :> PyList(<<t_Alice>>)),
     PyDict(<<>>),
     t_mail, t_call, PyInt(7), PyNone,
     FileObject(p_salary_csv), PyText(FileContent), FileBytes(FileContent)}

\* extra_keys as given to redact_auto; the empty tuple also stands for None.
ExtraKeys == {<<>>, <<"team">>, <<"phone", "manager">>}

\* The values mask_value is called with.
MaskInputs ==
    {PyNone, PyInt(0), PyInt(123), PyFloat(15), PyBool(TRUE), PyBool(FALSE),
     PyText(<<>>), t_Alice, PyList(<<PyInt(1)>>), PyDict("name" :> t_Alice)}

\* The caller's patterns: none, one that compiles, one that does not, and
\* the two in a row.
PatternLists ==
    {<<>>, << <<"E","n","g">> >>, << <<"(">> >>, << <<"a",".","*">>, <<"(">> >>}

Redactions(has_extra_keys, extra_keys, has_patterns, patterns) ==
    [some |-> TRUE, auto |-> FALSE, has_extra_keys |-> has_extra_keys,
     extra_keys |-> extra_keys, has_patterns |-> has_patterns,
     patterns |-> patterns]

WithRewrite(r, output_rewrite) == [r EXCEPT !.output_rewrite = output_rewrite]

\* The PolicyResults enforce is given: what evaluate builds, and results a
\* caller builds with extra_keys, patterns, output_rewrite, or no approval_key.
EnforceResults ==
    {PolicyResult("deny", Msg(m, <<>>), NoRedactions, NoneValue, "denylist.block") :
        m \in {"Denied", ""}}
    \cup {PolicyResult("allow", Msg("ok", <<>>), NoRedactions, NoneValue, "risk.low")}
    \cup {PolicyResult("allow_with_redaction", Msg("moderate", <<>>), r, NoneValue,
                       "risk.moderate") :
            r \in {NoRedactions, AutoRedactions}
                  \cup {Redactions(TRUE, k, FALSE, <<>>) : k \in ExtraKeys}}
    \cup {PolicyResult("require_approval", Msg(m, <<>>), NoRedactions, k, "risk.high") :
            m \in {"High risk", ""}, k \in {"high_risk_action", NoneValue}}
    \cup {WithRewrite(PolicyResult("rewrite_output", Msg("rewrite", <<>>), r, NoneValue,
                                   NoneValue), w) :
            r \in {NoRedactions} \cup {Redactions(FALSE, <<>>, TRUE, ps) :
                                          ps \in PatternLists},
            w \in {PyNone, PyText(<<"[","r","e","m","o","v","e","d","]">>)}}


GuardPaths == {p_salary_csv, p_id_rsa, p_notes, p_siem_log, p_ghost}

\* str(guard): what _guarded_read_text and _guarded_read_bytes take for the
\* path when the interceptor is called as a method of a Path (args is empty,
\* the interceptor being a method bound to the guard).
GuardRepr ==
    <<"<","c","h","a","i","n","w","a","t","c","h",".","w","r","a","p","p","e","r","s",
      ".","f","i","l","e","_","o","p","s",".","F","i","l","e","G","u","a","r","d",
      " ","o","b","j","e","c","t"," ","a","t"," ","0","x","7","f","0","1",">">>

\* The modes open is called with.
OpenModes == {<<"r">>, <<"r","b">>, <<"w">>}

\* The denylist files evaluate finds when a guarded read is evaluated.
GuardConfigs == {Config("missing", NoPatterns), Config("corrupt", NoPatterns)}

\* What the original function does: it returns, or the file is not there.
NotFound == Raised("FileNotFoundError", Msg("No such file or directory: {}", <<>>))

\* Path.read_text(guard) and Path.read_bytes(guard): a FileGuard is no Path.
NotAPath ==
    Raised("AttributeError", Msg("'FileGuard' object has no attribute 'open'", <<>>))


\* The raw result_meta dictionaries normalisation is given: every sensitivity
\* with every rows and tags entry, and every bytes with every egress and
\* destination entry; entries missing, null, of the wrong type, unrecognised,
\* negative, fractional, infinite and textual among them.
MetaSensitivities == {Absent, PyNone, PyStr("high"), PyStr("secret"), PyInt(3)}

MetaRows ==
    {Absent, PyNone, PyInt(7), PyInt(-5), PyBool(TRUE), PyFloat(25), PyInf,
     PyText(<<"1","2">>), PyText(<<"x">>)}

MetaTags ==
    {Absent, PyNone, PyStr("HR"), PyList(<<PyStr("PII"), PyInt(1), PyStr("PII")>>)}

MetaBytes == {Absent, PyInt(10), PyFloat(-15)}

MetaEgress == {Absent, PyStr("external"), PyStr("EXTERNAL")}

MetaDestinations == {Absent, PyNone, PyStr("localhost"), PyInt(5)}

RawMetas ==
    {[Meta(s, r, Absent, Absent, t) EXCEPT !["destination"] = Absent] :
        s \in MetaSensitivities, r \in MetaRows, t \in MetaTags}
    \cup {[Meta(Absent, Absent, b, e, Absent) EXCEPT !["destination"] = d] :
             b \in MetaBytes, e \in MetaEgress, d \in MetaDestinations}


(***************************************************************************)
(* The state: one TraceAccumulator (state, events), the Action object the   *)
(* caller last passed in (the library normalises it in place), and the last *)
(* call with what it was given and what it returned.                        *)
(***************************************************************************)

VARIABLES
    state,      \* TraceAccumulator.state
    events,     \* TraceAccumulator.events
    action,     \* the caller's Action object, as the last call left it
    call,       \* the last call: the operation and its arguments
    result,     \* the PolicyResult evaluate returned or enforce was given
    outcome,    \* what the last enforcement or redaction call returned or raised
    updates,    \* how many state updates the accumulator has made
    fed,        \* the normalised sensitivities and egress of the actions fed
    guard,      \* the FileGuard whose tracer the accumulator is, when there is one
    denylists,  \* the Denylist objects and the files list of DEFAULT_DENYLIST
    builtins,   \* what builtins.open, Path.read_text and Path.read_bytes are
    guards,     \* the FileGuard objects constructed: their saved functions, active
    kept,       \* the to_jsonable() results the caller holds
    sdk         \* chainwatch_sdk: _default_client and the guarded function's calls

\* chainwatch_sdk.decorators as imported (_default_client = None, line 13),
\* and a guarded function that was never called.
NoSdk == [default_client |-> FALSE, called |-> 0]

\* The module as imported: DEFAULT_DENYLIST["files"] as written in the
\* source, no Denylist object, no add_pattern call made.
NoDenylists ==
    [default_files |-> DEFAULT_DENYLIST.files, objs |-> <<>>, added |-> 0]

\* The functions of the interpreter, none replaced.
Originals == [open |-> 0, read_text |-> 0, read_bytes |-> 0]

vars == <<state, events, action, call, result, outcome, updates, fed, guard, denylists, builtins, guards, kept, sdk>>

\* How many state updates and recorded events a run of the model makes.
MaxUpdates == 2
MaxEvents == 1
\* How many sources are recorded between the evaluations of SpecPolicy.
MaxSeeds == 2

NilAction == MkAction(<<>>, <<>>, EmptyDict)

NilResult == PolicyResult("", Msg("", <<>>), NoRedactions, NoneValue, NoneValue)

NilOutcome == Returned(PyNone)

Call(op, a, purpose, denylist, config, payload, keys_or_patterns) ==
    [op |-> op, action |-> a, purpose |-> purpose, denylist |-> denylist,
     config |-> config, payload |-> payload, extra |-> keys_or_patterns]

NoConfig == Config("missing", NoPatterns)

NoArg == DenylistArg(FALSE, NoPatterns)

NilCall == Call("", NilAction, "", NoArg, NoConfig, PyNone, <<>>)

\* A FileGuard: purpose, actor and active as the object has them; reads
\* counts the reads its interceptors took over, originals lists the files the
\* original open, read_text and read_bytes were called on, trail the calls
\* the last _enforce_read made.
Guard(purpose, actor, active) ==
    [purpose |-> purpose, actor |-> actor, active |-> active, reads |-> 0,
     originals |-> <<>>, trail |-> <<>>]

\* No FileGuard has been constructed.
NoGuard == Guard("", "", FALSE)

Init ==
    /\ state = NewTraceState("t-1")
    /\ events = <<>>
    /\ action = NilAction
    /\ call = NilCall
    /\ result = NilResult
    /\ outcome = NilOutcome
    /\ updates = 0
    /\ fed = [sensitivity |-> {}, egress |-> {}]
    /\ guard = NoGuard
    /\ denylists = NoDenylists
    /\ builtins = Originals
    /\ guards = <<>>
    /\ kept = <<>>
    /\ sdk = NoSdk

\* evaluate(action=a, state=state, purpose=purpose, denylist=denylist)
Evaluate(a, purpose, denylist, config) ==
    /\ IF EvaluateRaises(a, Supplied(denylist), config)
       THEN /\ result' = NilResult
            /\ action' = a
            /\ outcome' = Raised("RuntimeError",
                               Msg("Could not determine home directory.", <<>>))
       ELSE /\ result' = EvaluateResult(a, state, purpose, Supplied(denylist), config)
            /\ action' = EvaluateAction(a, Supplied(denylist), config)
            /\ outcome' = NilOutcome
    /\ call' = Call("evaluate", a, purpose, denylist, config, PyNone, <<>>)
    /\ UNCHANGED <<state, events, updates, fed, guard, denylists, builtins, guards, kept, sdk>>

Feed(a) ==
    [sensitivity |-> fed.sensitivity \cup {NormalizedMeta(a).sensitivity},
     egress |-> fed.egress \cup {NormalizedMeta(a).egress}]

\* tracer.update_state_from_action(a)
UpdateStateFromAction(a) ==
    /\ state' = UpdateState(state, a)
    /\ action' = NormalizeMeta(a)
    /\ call' = Call("update_state_from_action", a, "", NoArg, NoConfig, PyNone, <<>>)
    /\ updates' = updates + 1
    /\ fed' = Feed(a)
    /\ result' = NilResult
    /\ outcome' = NilOutcome
    /\ UNCHANGED <<events, guard, denylists, builtins, guards, kept, sdk>>

\* tracer.record_action(actor, purpose, action=a, decision, span_id,
\* update_state): the state update when asked for, then the event built and
\* appended.
RecordAction(a, purpose, decision, span_id, update_state) ==
    /\ \E sid \in (IF span_id = NoneValue THEN NewSpanIds ELSE {span_id}) :
           LET st == RecordState(state, a, update_state)
               ev == BuildEvent(st, sid, NoneValue, "agent", purpose, a, decision)
           IN  /\ state' = st
               /\ events' = Record(events, ev)
               /\ outcome' = Returned(PyEvent(ev))
    /\ action' = NormalizeMeta(a)
    /\ call' = Call("record_action", a, purpose, NoArg, NoConfig,
                    PyBool(update_state), <<>>)
    /\ updates' = IF update_state THEN updates + 1 ELSE updates
    /\ fed' = IF update_state THEN Feed(a) ELSE fed
    /\ result' = NilResult
    /\ UNCHANGED <<guard, denylists, builtins, guards, kept, sdk>>

\* evaluate changes nothing but what it returns, so an evaluation right after
\* another reaches the states the first one could have reached: the runs
\* explored evaluate once between two accumulator calls.
Evaluated == call.op = "evaluate"

\* The accumulator fed a chain of actions, each of which may be evaluated.
Next ==
    \/ \E a \in TraceActions, d \in TraceDenylistArgs :
           ~Evaluated /\ Evaluate(a, "SOC_efficiency", d[1], d[2])
    \/ \E a \in TraceActions : updates < MaxUpdates /\ UpdateStateFromAction(a)
    \/ \E r \in Recorded, s \in SpanArgs, u \in BOOLEAN :
           /\ Len(events) < MaxEvents
           /\ u => updates < MaxUpdates
           /\ RecordAction(r[1], "SOC_efficiency", r[2], s, u)

Spec == Init /\ [][Next]_vars

\* Recording a source between evaluations.
Seed(a) ==
    /\ updates < MaxSeeds
    /\ UpdateStateFromAction(a)

\* evaluate on every action, purpose and denylist, against the trace states
\* that differ in the sources seen.
NextPolicy ==
    \/ \E a \in PolicyActions, p \in Purposes, d \in DenylistArgs :
           ~Evaluated /\ Evaluate(a, p, d[1], d[2])
    \/ \E a \in SeedActions : Seed(a)

SpecPolicy == Init /\ [][NextPolicy]_vars

\* b is a with more rows or with egress turned external, and nothing else
\* changed.
Escalates(a, b) ==
    /\ b.tool = a.tool /\ b.resource = a.resource
    /\ NormalizedMeta(b).sensitivity = NormalizedMeta(a).sensitivity
    /\ NormalizedMeta(b).rows >= NormalizedMeta(a).rows
    /\ NormalizedMeta(a).egress = "external" => NormalizedMeta(b).egress = "external"

\* evaluate on an action and then, with the same purpose, denylist and trace
\* state, on the action with more rows or external egress.
NextRisk ==
    \/ \E a \in PolicyActions, p \in Purposes, d \in TraceDenylistArgs :
           \/ ~Evaluated /\ Evaluate(a, p, d[1], d[2])
           \/ /\ Evaluated /\ Escalates(call.action, a)
              /\ Evaluate(a, call.purpose, call.denylist, call.config)
    \/ \E a \in SeedActions : ~Evaluated /\ Seed(a)

SpecRisk == Init /\ [][NextRisk]_vars

\* enforce(result, data)
CallEnforce(r, data) ==
    /\ result' = r
    /\ outcome' = Enforce(r, data)
    /\ call' = Call("enforce", NilAction, "", NoArg, NoConfig, data, <<>>)
    /\ action' = NilAction
    /\ UNCHANGED <<state, events, updates, fed, guard, denylists, builtins, guards, kept, sdk>>

\* redact_auto(obj, extra_keys)
CallRedactAuto(obj, extra_keys) ==
    /\ outcome' = Returned(RedactAuto(obj, extra_keys))
    /\ call' = Call("redact_auto", NilAction, "", NoArg, NoConfig, obj, extra_keys)
    /\ result' = NilResult
    /\ action' = NilAction
    /\ UNCHANGED <<state, events, updates, fed, guard, denylists, builtins, guards, kept, sdk>>

\* mask_value(v)
CallMaskValue(v) ==
    /\ outcome' = Returned(MaskValue(v))
    /\ call' = Call("mask_value", NilAction, "", NoArg, NoConfig, v, <<>>)
    /\ result' = NilResult
    /\ action' = NilAction
    /\ UNCHANGED <<state, events, updates, fed, guard, denylists, builtins, guards, kept, sdk>>

\* rewrite_output_text(text, patterns)
CallRewriteOutputText(text, patterns) ==
    /\ outcome' = LET out == RewriteOutputText(text.v, patterns)
                  IN  IF out.ok THEN Returned(PyText(out.text))
                      ELSE Raised("re.error", Msg("", <<>>))
    /\ call' = Call("rewrite_output_text", NilAction, "", NoArg, NoConfig, text,
                    patterns)
    /\ result' = NilResult
    /\ action' = NilAction
    /\ UNCHANGED <<state, events, updates, fed, guard, denylists, builtins, guards, kept, sdk>>

\* The enforcement and redaction operations on every result and payload.
NextEnforce ==
    \/ \E r \in EnforceResults, data \in Payloads : CallEnforce(r, data)
    \/ \E obj \in Payloads, k \in ExtraKeys : CallRedactAuto(obj, k)
    \/ \E v \in MaskInputs : CallMaskValue(v)
    \/ \E text \in {t_mail, t_call}, ps \in PatternLists :
           CallRewriteOutputText(text, ps)

SpecEnforce == Init /\ [][NextEnforce]_vars


\* How many events the log takes when every accumulator operation is called.
MaxLog == 3

\* tracer.build_event(span_id, parent_span_id, actor, purpose, action=a,
\* decision) without meta: the action is normalised, the event returned.
CallBuildEvent(a, purpose, decision, span_id) ==
    /\ outcome' = Returned(PyEvent(BuildEvent(state, span_id, NoneValue, "agent",
                                              purpose, a, decision)))
    /\ action' = NormalizeMeta(a)
    /\ call' = Call("build_event", a, purpose, NoArg, NoConfig, PyNone, <<>>)
    /\ result' = NilResult
    /\ UNCHANGED <<state, events, updates, fed, guard, denylists, builtins, guards, kept, sdk>>

\* tracer.record(event)
CallRecord(event) ==
    /\ events' = Record(events, event)
    /\ outcome' = Returned(PyNone)
    /\ call' = Call("record", NilAction, "", NoArg, NoConfig, PyEvent(event), <<>>)
    /\ result' = NilResult
    /\ UNCHANGED <<state, action, updates, fed, guard, denylists, builtins, guards, kept, sdk>>

\* asdict(state) and [e.to_dict() for e in events]: copies of the state and
\* of the events.
Snapshot(st, evs) == [t |-> "snapshot", v |-> [trace_state |-> st, events |-> evs]]

\* A list of the exported structure: a list object of its own holding the
\* items, or the accumulator's list object itself.
Copied(items) == [live |-> FALSE, v |-> items]

Shared == [live |-> TRUE, v |-> <<>>]

\* to_jsonable exporting the accumulator's own lists, as
\* {"trace_state": dict(vars(self.state)), "events": self.events} does.
ToJsonable_SharedLists(st, evs) ==
    [trace_state |-> [st EXCEPT !.seen_sources = Shared, !.tags = Shared],
     events |-> Shared]

\* to_jsonable, lines 186-189, as a structure of objects: asdict builds a
\* new dictionary with a new list for every list of the state, and the
\* comprehension a new list of asdict(event) dictionaries.
ToJsonable(st, evs) ==
    [trace_state |-> [st EXCEPT !.seen_sources = Copied(@), !.tags = Copied(@)],
     events |-> Copied(evs)]

\* What a holder of the exported structure reads in it, the accumulator
\* being in state st with the log evs.
Seen(snapshot, st, evs) ==
    [trace_state |->
        [snapshot.trace_state EXCEPT
            !.seen_sources = IF @.live THEN st.seen_sources ELSE @.v,
            !.tags = IF @.live THEN st.tags ELSE @.v],
     events |-> IF snapshot.events.live THEN evs ELSE snapshot.events.v]

\* tracer.to_jsonable(); keep: the caller holds on to the result, which it
\* does once.
CallToJsonable(keep) ==
    /\ keep => kept = <<>>
    /\ outcome' = Returned(Snapshot(state, events))
    /\ kept' = IF keep THEN Append(kept, ToJsonable(state, events)) ELSE kept
    /\ call' = Call("to_jsonable", NilAction, "", NoArg, NoConfig, PyBool(keep), <<>>)
    /\ result' = NilResult
    /\ UNCHANGED <<state, events, action, updates, fed, guard, denylists, builtins, guards, sdk>>

ExportedLists == {"seen_sources", "tags", "events"}

\* The caller empties a list of an exported structure it holds:
\* snapshot["trace_state"]["seen_sources"].clear(), ...["tags"].clear() or
\* snapshot["events"].clear().  A list shared with the accumulator is
\* emptied for the accumulator too.
ClearExported(i, list) ==
    /\ \E target \in {IF list = "events" THEN kept[i].events
                       ELSE kept[i].trace_state[list]} :
           IF target.live
           THEN /\ state' = IF list = "events" THEN state
                            ELSE [state EXCEPT ![list] = <<>>]
                /\ events' = IF list = "events" THEN <<>> ELSE events
                /\ UNCHANGED kept
           ELSE /\ kept' = IF list = "events"
                           THEN [kept EXCEPT ![i].events = Copied(<<>>)]
                           ELSE [kept EXCEPT ![i].trace_state[list] = Copied(<<>>)]
                /\ UNCHANGED <<state, events>>
    /\ call' = Call("clear", NilAction, "", NoArg, NoConfig, PyInt(i), <<list>>)
    /\ outcome' = Returned(PyNone)
    /\ result' = NilResult
    /\ UNCHANGED <<action, updates, fed, guard, denylists, builtins, guards, sdk>>

\* The last call returned an Event.
EventReturned == ~outcome.raised /\ outcome.value.t = "event"

\* Every operation of the accumulator, with evaluate and enforce between
\* them: the allowed read is evaluated for both purposes and the denied post
\* for SOC_efficiency; an Action object that was evaluated may be evaluated
\* again, and an event that was returned may be recorded.
NextAccumulator ==
    \/ \E r \in Recorded, p \in Purposes, d \in TraceDenylistArgs :
           /\ (p = "test") => r[2].result = "allow"
           /\ Evaluate(r[1], p, d[1], d[2])
    \/ /\ Evaluated
       /\ Evaluate(action, call.purpose, call.denylist, call.config)
    \/ \E r \in Recorded : updates < MaxUpdates /\ UpdateStateFromAction(r[1])
    \/ \E r \in Recorded, u \in BOOLEAN :
           /\ Len(events) < MaxLog
           /\ u => updates < MaxUpdates
           /\ RecordAction(r[1], "SOC_efficiency", r[2], "s-1", u)
    \/ \E r \in Recorded : CallBuildEvent(r[1], "SOC_efficiency", r[2], "s-2")
    \/ /\ EventReturned
       /\ Len(events) < MaxLog
       /\ CallRecord(outcome.value.v)
    \/ CallToJsonable(FALSE)
    \/ \E r \in {x \in EnforceResults : x.reason.fmt = "Denied"} :
           CallEnforce(r, t_mail)

SpecAccumulator == Init /\ [][NextAccumulator]_vars

\* The accumulator fed and exported in any order, the caller holding on to
\* exported structures and emptying their lists.
NextSnapshot ==
    \/ \E r \in Recorded : updates < MaxUpdates /\ UpdateStateFromAction(r[1])
    \/ \E r \in Recorded, u \in BOOLEAN :
           /\ Len(events) < MaxLog
           /\ u => updates < MaxUpdates
           /\ RecordAction(r[1], "SOC_efficiency", r[2], "s-1", u)
    \/ \E keep \in BOOLEAN : CallToJsonable(keep)
    \/ \E i \in 1..Len(kept), list \in ExportedLists : ClearExported(i, list)

SpecSnapshot == Init /\ [][NextSnapshot]_vars

\* An Action has been built with a raw result_meta.
InitMeta ==
    /\ state = NewTraceState("t-1")
    /\ events = <<>>
    /\ \E m \in RawMetas : action = MkAction(s_hr_api, s_org_read, m)
    /\ call = NilCall
    /\ result = NilResult
    /\ outcome = NilOutcome
    /\ updates = 0
    /\ fed = [sensitivity |-> {}, egress |-> {}]
    /\ guard = NoGuard
    /\ denylists = NoDenylists
    /\ builtins = Originals
    /\ guards = <<>>
    /\ kept = <<>>
    /\ sdk = NoSdk

\* A ResultMeta as a value a call returns.
PyMeta(m) == [t |-> "meta", v |-> m]

\* action.normalize_meta()
CallNormalizeMeta ==
    /\ action' = NormalizeMeta(action)
    /\ outcome' = Returned(PyNone)
    /\ call' = Call("normalize_meta", action, "", NoArg, NoConfig, PyNone, <<>>)
    /\ result' = NilResult
    /\ UNCHANGED <<state, events, updates, fed, guard, denylists, builtins, guards, kept, sdk>>

\* action.normalized_meta()
CallNormalizedMeta ==
    /\ outcome' = Returned(PyMeta(NormalizedMeta(action)))
    /\ call' = Call("normalized_meta", action, "", NoArg, NoConfig, PyNone, <<>>)
    /\ result' = NilResult
    /\ UNCHANGED <<state, events, action, updates, fed, guard, denylists, builtins, guards, kept, sdk>>

\* One Action object normalised, read, evaluated and recorded in any order.
NextMeta ==
    \/ CallNormalizeMeta
    \/ CallNormalizedMeta
    \/ Evaluate(action, "test", DenylistArg(TRUE, NoPatterns), NoConfig)
    \/ /\ Len(events) < MaxEvents
       /\ RecordAction(action, "test", [result |-> "allow", reason |-> "Low risk"],
                       "s-1", FALSE)

SpecMeta == InitMeta /\ [][NextMeta]_vars

\* Pattern dictionaries for is_blocked: one category each with the same
\* literal "/checkout" in it, all three together, and the built-in set.
s_checkout == <<"/","c","h","e","c","k","o","u","t">>

s_rm == <<"r","m"," ","-","r","f">>

BlockPatterns ==
    {Patterns(<<s_checkout>>, <<>>, <<>>),
     Patterns(<<>>, <<s_checkout, p_id_rsa>>, <<>>),
     Patterns(<<>>, <<>>, <<s_checkout, s_rm>>),
     Patterns(<<s_rm>>, <<s_checkout>>, <<p_id_rsa>>),
     DEFAULT_DENYLIST}

BlockResources == {s_checkout, s_checkout_url, p_id_rsa, s_rm_rf, p_notes, p_ghost}

\* Two tools of each category, one of none, and no tool.
BlockTools ==
    {s_http_post, <<"b","r","o","w","s","e","r">>,
     s_file_read, <<"f","i","l","e","_","d","e","l","e","t","e">>,
     s_shell_exec, <<"e","x","e","c">>,
     s_hr_api, <<>>}

\* The configuration files load finds: none, one that cannot be opened, an
\* empty one, one that is no YAML, a YAML list, and mappings with patterns
\* that compile and with one that does not.
LoadConfigs ==
    {Config("missing", NoPatterns),
     Config("unreadable", NoPatterns),
     Config("empty", NoPatterns),
     Config("corrupt", NoPatterns),
     Config("list", NoPatterns),
     Config("dict", NoPatterns),
     Config("dict", Patterns(<<s_checkout>>, <<p_id_rsa>>, <<s_rm>>)),
     Config("dict", Patterns(<<>>, <<>>, << <<"(">> >>)),
     Config("dict", Patterns(<< <<"*","a">> >>, <<p_id_rsa>>, <<>>))}

\* A Denylist object as a value a call returns.
PyDenylist(dl) == [t |-> "denylist", v |-> dl]

\* The (blocked, reason) pair is_blocked returns.
PyBlocked(b) == [t |-> "blocked", v |-> b]

\* Denylist.load() with the configuration file as it is found.
CallLoad(config) ==
    /\ outcome' = IF Load(config).ok
                  THEN Returned(PyDenylist(Load(config).dl))
                  ELSE Raised(LoadError(config), Msg("", <<>>))
    /\ call' = Call("load", NilAction, "", NoArg, config, PyNone, <<>>)
    /\ result' = NilResult
    /\ UNCHANGED <<state, events, action, updates, fed, guard, denylists, builtins, guards, kept, sdk>>

\* Denylist(patterns).is_blocked(resource, tool)
CallIsBlocked(patterns, resource, tool) ==
    /\ \E dl \in {DenylistInit(patterns).dl} :
           outcome' = IF IsBlockedRaises(dl, resource, tool)
                      THEN Raised("RuntimeError",
                                  Msg("Could not determine home directory.", <<>>))
                      ELSE Returned(PyBlocked(IsBlocked(dl, resource, tool)))
    /\ call' = Call("is_blocked", MkAction(tool, resource, Meta(Absent, Absent, Absent, Absent, Absent)),
                    "", DenylistArg(TRUE, patterns), NoConfig, PyNone, <<>>)
    /\ result' = NilResult
    /\ UNCHANGED <<state, events, action, updates, fed, guard, denylists, builtins, guards, kept, sdk>>

NextDenylist ==
    \/ \E config \in LoadConfigs : CallLoad(config)
    \/ \E patterns \in BlockPatterns, resource \in BlockResources, tool \in BlockTools :
           CallIsBlocked(patterns, resource, tool)

SpecDenylist == Init /\ [][NextDenylist]_vars

\* How many Denylist objects are made and how many add_pattern calls.
MaxDenylists == 2
MaxAdded == 2

\* The patterns add_pattern is given: one that every category takes, and
\* one re.compile rejects.
AddedPatterns == {s_checkout, <<"(">>}

\* The categories add_pattern is given: the three, and one that is none.
AddedCategories == {"urls", "files", "commands", "hosts"}

\* Denylist(patterns) with a dictionary of the caller's.
NewDenylist(patterns) ==
    /\ Len(denylists.objs) < MaxDenylists
    /\ denylists' = [denylists EXCEPT
                        !.objs = Append(@, DenylistObject(DenylistInit(patterns).dl, FALSE))]
    /\ outcome' = Returned(PyInt(Len(denylists.objs) + 1))
    /\ call' = Call("Denylist", NilAction, "", DenylistArg(TRUE, patterns), NoConfig,
                    PyNone, <<>>)
    /\ result' = NilResult
    /\ UNCHANGED <<state, events, action, updates, fed, guard, builtins, guards, kept, sdk>>

\* Denylist.load() with no configuration file: Denylist(DEFAULT_DENYLIST).
LoadDefaults ==
    /\ Len(denylists.objs) < MaxDenylists
    /\ denylists' = [denylists EXCEPT
                        !.objs = Append(@, DenylistObject(DefaultDenylist.dl, TRUE))]
    /\ outcome' = Returned(PyInt(Len(denylists.objs) + 1))
    /\ call' = Call("load", NilAction, "", NoArg, NoConfig, PyNone, <<>>)
    /\ result' = NilResult
    /\ UNCHANGED <<state, events, action, updates, fed, guard, builtins, guards, kept, sdk>>

\* denylists.objs[i].add_pattern(category, pattern)
CallAddPattern(i, category, pattern) ==
    /\ denylists.added < MaxAdded
    /\ \E err \in {AddPatternError(category, pattern)} :
           IF err = ""
           THEN /\ denylists' = [AddPattern(denylists, i, category, pattern)
                                    EXCEPT !.added = @ + 1]
                /\ outcome' = Returned(PyNone)
           ELSE /\ UNCHANGED denylists
                /\ outcome' = Raised(err, IF err = "ValueError"
                                          THEN Msg("Unknown category: {}", <<category>>)
                                          ELSE Msg("", <<>>))
    /\ call' = Call("add_pattern", NilAction, "", NoArg, NoConfig, PyInt(i),
                    <<category, pattern>>)
    /\ result' = NilResult
    /\ UNCHANGED <<state, events, action, updates, fed, guard, builtins, guards, kept, sdk>>

\* denylists.objs[i].is_blocked(resource, tool)
CallIsBlockedOn(i, resource, tool) ==
    /\ \E dl \in {Lists(denylists, denylists.objs[i])} :
           outcome' = IF IsBlockedRaises(dl, resource, tool)
                      THEN Raised("RuntimeError",
                                  Msg("Could not determine home directory.", <<>>))
                      ELSE Returned(PyBlocked(IsBlocked(dl, resource, tool)))
    /\ call' = Call("is_blocked",
                    MkAction(tool, resource, Meta(Absent, Absent, Absent, Absent, Absent)),
                    "", NoArg, NoConfig, PyInt(i), <<>>)
    /\ result' = NilResult
    /\ UNCHANGED <<state, events, action, updates, fed, guard, denylists, builtins, guards, kept, sdk>>

\* One Denylist built from a dictionary and one loaded from the defaults,
\* extended and asked in any order.
InitPatterns ==
    /\ state = NewTraceState("t-1")
    /\ events = <<>>
    /\ action = NilAction
    /\ call = NilCall
    /\ result = NilResult
    /\ outcome = NilOutcome
    /\ updates = 0
    /\ fed = [sensitivity |-> {}, egress |-> {}]
    /\ guard = NoGuard
    /\ denylists = [NoDenylists EXCEPT
                       !.objs = <<DenylistObject(
                                      DenylistInit(Patterns(<<s_rm>>, <<p_id_rsa>>, <<s_rm>>)).dl,
                                      FALSE),
                                  DenylistObject(DefaultDenylist.dl, TRUE)>>]
    /\ builtins = Originals
    /\ guards = <<>>
    /\ kept = <<>>
    /\ sdk = NoSdk

NextPatterns ==
    \/ \E i \in 1..Len(denylists.objs), category \in AddedCategories,
          pattern \in AddedPatterns : CallAddPattern(i, category, pattern)
    \/ \E i \in 1..Len(denylists.objs), resource \in {s_checkout, p_id_rsa},
          tool \in {s_http_post, s_file_read, s_shell_exec} :
           CallIsBlockedOn(i, resource, tool)

SpecPatterns == InitPatterns /\ [][NextPatterns]_vars

\* Denylist objects made, extended and asked, in any order.
NextIsolation ==
    \/ NewDenylist(Patterns(<<s_rm>>, <<p_id_rsa>>, <<s_rm>>))
    \/ LoadDefaults
    \/ \E i \in 1..Len(denylists.objs), pattern \in AddedPatterns :
           CallAddPattern(i, "files", pattern)
    \/ \E i \in 1..Len(denylists.objs) : CallIsBlockedOn(i, s_checkout, s_file_read)

SpecIsolation == Init /\ [][NextIsolation]_vars

\* How many reads are made under a FileGuard.
MaxReads == 2

\* FileGuard(purpose, actor) entered: its tracer is new, the interceptors are
\* installed.
InitGuard ==
    /\ state = NewTraceState("t-1")
    /\ events = <<>>
    /\ action = NilAction
    /\ call = NilCall
    /\ result = NilResult
    /\ outcome = NilOutcome
    /\ updates = 0
    /\ fed = [sensitivity |-> {}, egress |-> {}]
    /\ \E p \in Purposes : guard = Guard(p, "agent", TRUE)
    /\ denylists = NoDenylists
    /\ builtins = Originals
    /\ guards = <<>>
    /\ kept = <<>>
    /\ sdk = NoSdk

\* _enforce_read(filepath, read_fn), called by the interceptor op.
EnforceReadStep(op, filepath, mode, file_bytes, config, span_id, read) ==
    \E e \in {EnforceRead(state, events, guard.purpose, guard.actor, filepath,
                         file_bytes, config, span_id, read)} :
        /\ state' = e.state
        /\ events' = e.events
        /\ action' = e.action
        /\ result' = e.result
        /\ outcome' = e.outcome
        /\ updates' = updates + (Len(e.events) - Len(events))
        /\ fed' = IF Len(e.events) > Len(events) THEN Feed(e.action) ELSE fed
        /\ call' = Call(op, e.action, guard.purpose, NoArg, NoConfig,
                        PyText(filepath), mode)
        /\ guard' = [guard EXCEPT !.reads = @ + 1,
                                  !.originals = IF e.invoked THEN Append(@, filepath)
                                                ELSE @,
                                  !.trail = e.trail]
        /\ UNCHANGED <<denylists, builtins, guards, kept, sdk>>

\* What an interceptor of the guard does with a call: whether it goes through
\* _enforce_read or straight to the original function, the path and the size
\* of the file, and read, what the original function does when it is called.
Interception(op, enforced, filepath, mode, file_bytes, read) ==
    [op |-> op, enforced |-> enforced, filepath |-> filepath, mode |-> mode,
     file_bytes |-> file_bytes, read |-> read]

\* _guarded_open(file, mode): a mode that is not a text read goes to the
\* original open.
GuardedOpen(file, mode, file_bytes, exists) ==
    Interception("open", InterceptsMode(mode), file, mode, file_bytes,
                 IF exists THEN Returned(FileObject(file)) ELSE NotFound)

\* _guarded_read_text(*args): args holds the path when the function is
\* called with it, and nothing when it is called as a method of the path.
GuardedReadText(args, file_bytes, exists) ==
    IF args = <<>>
    THEN Interception("read_text", TRUE, GuardRepr, <<>>, 0, NotAPath)
    ELSE Interception("read_text", TRUE, PathStr(PathOf(args[1])), <<>>, file_bytes,
                      IF exists THEN Returned(PyText(FileContent)) ELSE NotFound)

\* _guarded_read_bytes(*args)
GuardedReadBytes(args, file_bytes, exists) ==
    IF args = <<>>
    THEN Interception("read_bytes", TRUE, GuardRepr, <<>>, 0, NotAPath)
    ELSE Interception("read_bytes", TRUE, PathStr(PathOf(args[1])), <<>>, file_bytes,
                      IF exists THEN Returned(FileBytes(FileContent)) ELSE NotFound)

\* open, Path.read_text or Path.read_bytes called while the guard is active:
\* the interceptor g runs, through _enforce_read or the original function.
GuardedCall(g, config, span_id) ==
    /\ guard.active
    /\ IF g.enforced
       THEN EnforceReadStep(g.op, g.filepath, g.mode, g.file_bytes, config, span_id,
                            g.read)
       ELSE /\ outcome' = g.read
            /\ call' = Call(g.op, NilAction, guard.purpose, NoArg, NoConfig,
                            PyText(g.filepath), g.mode)
            /\ guard' = [guard EXCEPT !.originals = Append(@, g.filepath),
                                      !.trail = <<"original">>]
            /\ result' = NilResult
            /\ action' = NilAction
            /\ UNCHANGED <<state, events, updates, fed, denylists, builtins, guards, kept, sdk>>

\* new_span_id() under the guard: an id no event of the trace has yet.
FreshSpanIds == {sid \in NewSpanIds : \A i \in 1..Len(events) : events[i].span_id # sid}

\* The calls made under the guard: open on every path in every mode,
\* read_text and read_bytes with and without the path, on files that are
\* there (12 bytes long) and files that are not.
GuardedCalls ==
    {GuardedOpen(f, m, IF x THEN 12 ELSE 0, x) :
         f \in GuardPaths, m \in OpenModes, x \in BOOLEAN}
    \cup {GuardedReadText(args, IF x THEN 12 ELSE 0, x) :
              args \in {<<>>, <<p_notes>>, <<p_salary_csv>>}, x \in BOOLEAN}
    \cup {GuardedReadBytes(args, IF x THEN 12 ELSE 0, x) :
              args \in {<<>>, <<p_notes>>}, x \in BOOLEAN}

\* The reads made under one FileGuard.
NextGuard ==
    \E g \in GuardedCalls, c \in GuardConfigs, sid \in FreshSpanIds :
        /\ guard.reads < MaxReads
        /\ g.op = "open" => Len(guard.originals) < MaxReads
        /\ GuardedCall(g, c, sid)

SpecGuard == InitGuard /\ [][NextGuard]_vars

\* How many FileGuard objects are constructed.
MaxGuards == 2

\* A function that may stand for builtins.open, Path.read_text or
\* Path.read_bytes: 0 is the function of the interpreter, k the interceptor
\* bound to the k-th FileGuard constructed.
Interceptor(k) == k

Interceptors(k) ==
    [open |-> Interceptor(k), read_text |-> Interceptor(k),
     read_bytes |-> Interceptor(k)]

\* The guard is in no with block.
NotEntered == [depth |-> 0, builtins |-> Originals]

\* FileGuard.__init__, lines 46-56: the functions in place are stored, the
\* guard is not active.  entered is what a with block on the guard found
\* in place when it was entered, and how deep the block is nested.
NewFileGuard ==
    /\ Len(guards) < MaxGuards
    /\ guards' = Append(guards, [_original_open |-> builtins.open,
                                 _original_path_read_text |-> builtins.read_text,
                                 _original_path_read_bytes |-> builtins.read_bytes,
                                 active |-> FALSE,
                                 entered |-> NotEntered])
    /\ call' = Call("FileGuard", NilAction, "", NoArg, NoConfig,
                    PyInt(Len(guards) + 1), <<>>)
    /\ outcome' = Returned(PyNone)
    /\ UNCHANGED <<state, events, action, result, updates, fed, guard, denylists,
                   builtins, kept, sdk>>

\* activate, lines 68-73: the functions in place and the guards after
\* guards[i].activate().
Activated(i) ==
    [builtins |-> Interceptors(i), guards |-> [guards EXCEPT ![i].active = TRUE]]

\* deactivate, lines 75-80.
Deactivated(i) ==
    [builtins |-> [open |-> guards[i]._original_open,
                   read_text |-> guards[i]._original_path_read_text,
                   read_bytes |-> guards[i]._original_path_read_bytes],
     guards |-> [guards EXCEPT ![i].active = FALSE]]

\* guards[i].activate(), on a guard that is not active.
Activate(i) ==
    /\ ~guards[i].active
    /\ builtins' = Activated(i).builtins
    /\ guards' = Activated(i).guards
    /\ call' = Call("activate", NilAction, "", NoArg, NoConfig, PyInt(i), <<>>)
    /\ outcome' = Returned(PyNone)
    /\ UNCHANGED <<state, events, action, result, updates, fed, guard, denylists,
                   kept, sdk>>

\* guards[i].deactivate(), on a guard that was activated by hand.
Deactivate(i) ==
    /\ guards[i].active
    /\ guards[i].entered = NotEntered
    /\ builtins' = Deactivated(i).builtins
    /\ guards' = Deactivated(i).guards
    /\ call' = Call("deactivate", NilAction, "", NoArg, NoConfig, PyInt(i), <<>>)
    /\ outcome' = Returned(PyNone)
    /\ UNCHANGED <<state, events, action, result, updates, fed, guard, denylists,
                   kept, sdk>>

\* How many with blocks on guards are open.
Depth == Cardinality({i \in 1..Len(guards) : guards[i].entered.depth > 0})

\* "with guards[i]:" is entered, the guard not being active: __enter__,
\* lines 58-61.
Enter(i) ==
    /\ ~guards[i].active
    /\ builtins' = Activated(i).builtins
    /\ guards' = [Activated(i).guards EXCEPT
                     ![i].entered = [depth |-> Depth + 1, builtins |-> builtins]]
    /\ call' = Call("__enter__", NilAction, "", NoArg, NoConfig, PyInt(i), <<>>)
    /\ outcome' = Returned(PyNone)
    /\ UNCHANGED <<state, events, action, result, updates, fed, guard, denylists,
                   kept, sdk>>

\* What the body of a with block ends with: it completes, or it raises.
BodyEnds == {"", "EnforcementError", "FileNotFoundError", "ValueError"}

\* The innermost with block, which is on guards[i], is left, its body
\* having completed or raised exc: __exit__, lines 63-66, deactivates and
\* returns False, so that the exception goes on to the caller.
Exit(i, exc) ==
    /\ guards[i].entered.depth > 0
    /\ guards[i].entered.depth = Depth
    /\ builtins' = Deactivated(i).builtins
    /\ guards' = [Deactivated(i).guards EXCEPT ![i].entered = NotEntered]
    /\ call' = Call("__exit__", NilAction, "", NoArg, NoConfig, PyInt(i), <<exc>>)
    /\ outcome' = IF exc = "" THEN Returned(PyNone) ELSE Raised(exc, Msg("", <<>>))
    /\ UNCHANGED <<state, events, action, result, updates, fed, guard, denylists,
                   kept, sdk>>

\* The guards whose interceptors a call of the function fn goes through:
\* the interceptor of guard k calls _enforce_read, which calls the function
\* the guard stored (lines 82-91), and so on down to the interpreter's own.
RECURSIVE InterceptedBy(_, _)
InterceptedBy(fn, gs) ==
    IF fn = 0 THEN <<>>
    ELSE <<fn>> \o InterceptedBy(gs[fn]._original_open, gs)

\* open(file, "r") is called: the guards that intercept it, in order.
OpenText ==
    /\ call' = Call("open", NilAction, "", NoArg, NoConfig, PyText(p_notes),
                    InterceptedBy(builtins.open, guards))
    /\ outcome' = Returned(FileObject(p_notes))
    /\ UNCHANGED <<state, events, action, result, updates, fed, guard, denylists,
                   builtins, guards, kept, sdk>>

\* FileGuards constructed, activated and deactivated by hand or by with
\* blocks, in any order, and files opened in between.  Each guard is used
\* as one guard alone would be: it is activated when it is not active and
\* deactivated when it is, by hand or by a with block, never both at once.
NextGuards ==
    \/ NewFileGuard
    \/ \E i \in 1..Len(guards) : Activate(i)
    \/ \E i \in 1..Len(guards) : Deactivate(i)
    \/ \E i \in 1..Len(guards) : Enter(i)
    \/ \E i \in 1..Len(guards), exc \in BodyEnds : Exit(i, exc)
    \/ OpenText

SpecGuards == Init /\ [][NextGuards]_vars


(***************************************************************************)
(* sdk/python/chainwatch_sdk: the guard decorator, ChainwatchClient.check  *)
(* and CheckResult.                                                        *)
(***************************************************************************)

\* How many times the guarded function runs.
MaxCalls == 2

\* client.py, line 10: _EXIT_BLOCKED
EXIT_BLOCKED == 77

\* What the chainwatch binary exits with: done, blocked, failed.
ExitCodes == {0, EXIT_BLOCKED, 1}

\* What the binary prints: a decision of each kind, one in capitals, a null
\* and a list for the decision, no decision, no output, blanks, text that
\* is no JSON, and JSON that is no object.
Stdouts ==
    {"{\"decision\": \"allow\", \"reason\": \"ok\"}",
     "{\"decision\": \"allow_with_redaction\", \"reason\": \"ok\"}",
     "{\"decision\": \"deny\", \"reason\": \"no\"}",
     "{\"decision\": \"require_approval\", \"reason\": \"no\"}",
     "{\"decision\": \"rewrite_output\", \"reason\": \"no\"}",
     "{\"decision\": \"ALLOW\"}",
     "{\"decision\": null}",
     "{\"decision\": [\"allow\"]}",
     "{\"reason\": \"ok\"}",
     "{}", "", "  ", "allow", "[]", "null", "\"allow\""}

\* json.loads(text) on the texts above: the value, or JSONDecodeError.
JsonLoads(text) ==
    CASE text = "{\"decision\": \"allow\", \"reason\": \"ok\"}" ->
             [ok |-> TRUE,
              value |-> PyDict("decision" :> PyStr("allow") @@ "reason" :> PyStr("ok"))]
      [] text = "{\"decision\": \"allow_with_redaction\", \"reason\": \"ok\"}" ->
             [ok |-> TRUE,
              value |-> PyDict("decision" :> PyStr("allow_with_redaction")
                               @@ "reason" :> PyStr("ok"))]
      [] text = "{\"decision\": \"deny\", \"reason\": \"no\"}" ->
             [ok |-> TRUE,
              value |-> PyDict("decision" :> PyStr("deny") @@ "reason" :> PyStr("no"))]
      [] text = "{\"decision\": \"require_approval\", \"reason\": \"no\"}" ->
             [ok |-> TRUE,
              value |-> PyDict("decision" :> PyStr("require_approval")
                               @@ "reason" :> PyStr("no"))]
      [] text = "{\"decision\": \"rewrite_output\", \"reason\": \"no\"}" ->
             [ok |-> TRUE,
              value |-> PyDict("decision" :> PyStr("rewrite_output")
                               @@ "reason" :> PyStr("no"))]
      [] text = "{\"decision\": \"ALLOW\"}" ->
             [ok |-> TRUE, value |-> PyDict("decision" :> PyStr("ALLOW"))]
      [] text = "{\"decision\": null}" ->
             [ok |-> TRUE, value |-> PyDict("decision" :> PyNone)]
      [] text = "{\"decision\": [\"allow\"]}" ->
             [ok |-> TRUE, value |-> PyDict("decision" :> PyList(<<PyStr("allow")>>))]
      [] text = "{\"reason\": \"ok\"}" ->
             [ok |-> TRUE, value |-> PyDict("reason" :> PyStr("ok"))]
      [] text = "{}" -> [ok |-> TRUE, value |-> PyDict(<<>>)]
      [] text = "[]" -> [ok |-> TRUE, value |-> PyList(<<>>)]
      [] text = "null" -> [ok |-> TRUE, value |-> PyNone]
      [] text = "\"allow\"" -> [ok |-> TRUE, value |-> PyStr("allow")]
      [] OTHER -> [ok |-> FALSE, value |-> PyNone]

\* _subprocess.parse_json, lines 41-50: blank text and text that is no
\* JSON give an empty dictionary, anything else what json.loads gives.
ParseJson(text) ==
    IF text \in {"", "  "} THEN PyDict(<<>>)
    ELSE IF JsonLoads(text).ok THEN JsonLoads(text).value
    ELSE PyDict(<<>>)

\* data.get(key, default)
DictGet(data, key, default) ==
    IF key \in DOMAIN data.v THEN data.v[key] ELSE default

\* CheckResult.from_json, lines 21-28; data.get fails on what is no
\* dictionary.
FromJson(data) ==
    IF data.t # "dict"
    THEN Raised("AttributeError", Msg("object has no attribute 'get'", <<>>))
    ELSE Returned([t |-> "CheckResult",
                   v |-> [decision |-> DictGet(data, "decision", PyStr("deny")),
                          reason |-> DictGet(data, "reason", PyStr("")),
                          policy_id |-> DictGet(data, "policy_id", PyStr("")),
                          approval_key |-> DictGet(data, "approval_key", PyStr(""))]])

\* CheckResult.allowed, lines 18-19
CheckAllowed(check) ==
    check.decision \in {PyStr("allow"), PyStr("allow_with_redaction")}

\* ChainwatchClient.check, lines 66-77, the binary having exited with
\* exit_code and printed stdout.
Check(exit_code, stdout) ==
    IF exit_code \in {0, EXIT_BLOCKED}
    THEN FromJson(ParseJson(stdout))
    ELSE Raised("RuntimeError", Msg("chainwatch exited with code {}: {}",
                                    <<exit_code, "">>))

\* configure(), lines 16-36: the client is constructed, which looks the
\* binary up on PATH (client.py 34), and becomes the default client.
Configure(found) ==
    /\ sdk' = IF found THEN [sdk EXCEPT !.default_client = TRUE] ELSE sdk
    /\ outcome' = IF found THEN Returned(PyNone)
                  ELSE Raised("BinaryNotFoundError", Msg("{} not found on PATH",
                                                         <<"chainwatch">>))
    /\ call' = Call("configure", NilAction, "", NoArg, NoConfig, PyBool(found), <<>>)
    /\ UNCHANGED <<state, events, action, result, updates, fed, guard, denylists,
                   builtins, guards, kept>>

\* The wrapper of a function decorated with @guard("rm", client=client) is
\* called (decorators.py 58-81); client: the decorator was given one.  The
\* function, when it runs, returns "ran".
CallGuarded(client, exit_code, stdout) ==
    /\ sdk.called < MaxCalls
    /\ \E c \in {IF client \/ sdk.default_client
                  THEN Check(exit_code, stdout)
                  ELSE Raised("RuntimeError",
                              Msg("No ChainwatchClient configured.", <<>>))} :
           IF c.raised
           THEN outcome' = c /\ UNCHANGED sdk
           ELSE IF ~CheckAllowed(c.value.v)
           THEN /\ outcome' = Raised("BlockedError",
                                     Msg("chainwatch blocked ({}): {}",
                                         <<c.value.v.decision, c.value.v.reason>>))
                /\ UNCHANGED sdk
           ELSE /\ outcome' = Returned(PyStr("ran"))
                /\ sdk' = [sdk EXCEPT !.called = @ + 1]
    /\ call' = Call("guard", NilAction, "", NoArg, NoConfig, PyInt(exit_code),
                    <<client, stdout>>)
    /\ UNCHANGED <<state, events, action, result, updates, fed, guard, denylists,
                   builtins, guards, kept>>

\* Guarded functions called with and without a client, whatever the binary
\* answers.
NextSdk ==
    \/ \E found \in BOOLEAN : Configure(found)
    \/ \E client \in BOOLEAN, exit_code \in ExitCodes, stdout \in Stdouts :
           CallGuarded(client, exit_code, stdout)

SpecSdk == Init /\ [][NextSdk]_vars


(***************************************************************************)
(* Properties of evaluate, over the evaluations of SpecPolicy.             *)
(***************************************************************************)

\* A pattern of the given sets matches the resource of a in the category of
\* a's tool: a url or command pattern finds a match in the resource, a file
\* pattern blocks the path.
PatternMatches(patterns, a) ==
    \/ /\ a.tool \in UrlTools
       /\ \E i \in 1..Len(patterns.urls) :
              RegexSearch(CompilePattern(patterns.urls[i]), a.resource)
    \/ /\ a.tool \in FileTools
       /\ \E i \in 1..Len(patterns.files) :
              FilePatternBlocks(a.resource, patterns.files[i])
    \/ /\ a.tool \in CommandTools
       /\ \E i \in 1..Len(patterns.commands) :
              RegexSearch(CompilePattern(patterns.commands[i]), a.resource)

\* The patterns in force in the last evaluation: the supplied ones, else
\* those of the loaded file, else (no file) the defaults, else none.
PatternsInForce ==
    IF call.denylist.some THEN call.denylist.patterns
    ELSE CASE call.config.kind = "missing" -> DEFAULT_DENYLIST
           [] call.config.kind = "dict" -> call.config.patterns
           [] OTHER -> NoPatterns

DenylistDecides == PatternMatches(PatternsInForce, call.action)

SalaryForSOC ==
    /\ call.purpose = "SOC_efficiency"
    /\ Contains(Lower(call.action.resource), s_salary)

RiskDecides == Evaluated /\ ~outcome.raised /\ ~DenylistDecides /\ ~SalaryForSOC

\* The risk the last evaluation reports in its reason.
ReportedRisk == DigitsValue(result.reason.args[1])

\* The risk formula, term by term, for the action last evaluated.
FormulaRisk ==
    LET meta == NormalizedMeta(call.action)
        source == IF call.action.tool # <<>> THEN call.action.tool
                  ELSE SplitFirst(call.action.resource, "/")
    IN  (CASE meta.sensitivity = "low" -> 1
           [] meta.sensitivity = "medium" -> 3
           [] meta.sensitivity = "high" -> 6)
        + (IF meta.rows > 10000 THEN 9 ELSE IF meta.rows > 1000 THEN 3 ELSE 0)
        + (IF meta.egress = "external" THEN 6 ELSE 0)
        + (IF InSeq(source, state.seen_sources) THEN 0 ELSE 2)

\* C1: an evaluation whose supplied denylist has a pattern matching the
\* resource in the category of the action's tool returns deny with policy_id
\* "denylist.block", whatever the purpose, the metadata and the trace state.
C1_DenylistPrecedence ==
    (Evaluated /\ call.denylist.some
        /\ PatternMatches(call.denylist.patterns, call.action))
    => (result.decision = "deny" /\ result.policy_id = "denylist.block")

\* An evaluation for SOC_efficiency of a salary resource that the supplied
\* denylist matches, with a risk that would ask for approval, is denied.
C1_Witness ==
    /\ Evaluated /\ call.denylist.some
    /\ PatternMatches(call.denylist.patterns, call.action)
    /\ SalaryForSOC
    /\ FormulaRisk >= 11
    /\ result.decision = "deny"

\* C2: an evaluation that the denylist does not block, for purpose
\* "SOC_efficiency" and a resource whose lowercase form contains "salary",
\* returns require_approval with approval_key "soc_salary_access" whatever
\* the risk.
C2_HardRulePrecedence ==
    (Evaluated /\ ~DenylistDecides /\ SalaryForSOC)
    => (result.decision = "require_approval"
        /\ result.approval_key = "soc_salary_access")

\* The hard rule decides an evaluation of a resource written "HR/Salary"
\* whose risk alone would allow it.
C2_Witness ==
    /\ Evaluated /\ ~DenylistDecides /\ SalaryForSOC
    /\ call.action.resource = s_HR_Salary
    /\ FormulaRisk <= 5
    /\ result.approval_key = "soc_salary_access"

\* C3: when neither the denylist nor the hard rule decides, the risk the
\* evaluation reports lies in exactly one band and the band gives the
\* decision: 11 and above require_approval with approval_key
\* "high_risk_action", 6 to 10 allow_with_redaction with a redaction
\* directive, 5 and below allow.
C3_ThresholdMapping ==
    RiskDecides =>
        /\ (ReportedRisk >= 11) =>
               (result.decision = "require_approval"
                /\ result.approval_key = "high_risk_action")
        /\ (ReportedRisk > 5 /\ ReportedRisk < 11) =>
               (result.decision = "allow_with_redaction" /\ result.redactions.some)
        /\ (ReportedRisk <= 5) => result.decision = "allow"
        /\ Cardinality({b \in {"high", "moderate", "low"} :
               \/ b = "high" /\ ReportedRisk >= 11
               \/ b = "moderate" /\ ReportedRisk > 5 /\ ReportedRisk < 11
               \/ b = "low" /\ ReportedRisk <= 5}) = 1

\* A risk of exactly 11 asks for approval.
C3_Witness ==
    /\ RiskDecides
    /\ ReportedRisk = 11
    /\ result.decision = "require_approval"

Empty(field) == field = NoneValue \/ field = ""

\* The last call of evaluate returned a PolicyResult.
EvaluateReturned == Evaluated /\ ~outcome.raised

\* C13: every PolicyResult evaluate returns has a reason with text in it and
\* a policy_id, one of the five the rule paths give, and has an approval_key
\* exactly when its decision is require_approval.
C13_ExplainableDecisions ==
    EvaluateReturned =>
        /\ result.reason.fmt # ""
        /\ ~Empty(result.policy_id)
        /\ result.policy_id \in {"denylist.block", "purpose.SOC_efficiency.salary",
                                  "risk.high", "risk.moderate", "risk.low"}
        /\ ~Empty(result.approval_key) <=> result.decision = "require_approval"

\* An evaluation the denylist decided: denied, with its policy_id and reason
\* and no approval_key.
C13_Witness ==
    /\ EvaluateReturned
    /\ result.decision = "deny"
    /\ result.policy_id = "denylist.block"
    /\ result.reason.fmt = "Denylisted: {}"
    /\ result.approval_key = NoneValue


(***************************************************************************)
(* Properties of the trace state, over the runs of Spec.                   *)
(***************************************************************************)

\* The source evaluate looks up in seen_sources.
LookedUp(a) == IF a.tool # <<>> THEN a.tool ELSE SplitFirst(a.resource, "/")

\* The source of a enters seen_sources in this step.
FirstSeen(a) ==
    /\ ~InSeq(LookedUp(a), state.seen_sources)
    /\ InSeq(LookedUp(a), state'.seen_sources)

\* C5, as stated: the risk of a fixed action against the trace state after a
\* step is never lower than against the trace state before it.
C5_RiskNeverLower ==
    [][\A a \in TraceActions : EvaluateRisk(a, state') >= EvaluateRisk(a, state)]_vars

\* C5, as the code has it: the risk of a fixed action against the trace state
\* after a step is the risk against the state before it, less 2 in the step
\* in which the source evaluate looks up enters seen_sources; it never rises.
C5_RiskFallsOnceSeen ==
    [][\A a \in TraceActions :
          EvaluateRisk(a, state') =
              EvaluateRisk(a, state) - (IF FirstSeen(a) THEN 2 ELSE 0)]_vars

\* An evaluation reports a risk lower than the same action had at the start
\* of the trace.
C5_Witness ==
    /\ RiskDecides
    /\ updates > 0
    /\ ReportedRisk < EvaluateRisk(call.action, NewTraceState("t-1"))

\* The highest of a set of sensitivities in the order low < medium < high.
Highest(sens) ==
    IF "high" \in sens THEN "high"
    ELSE IF "medium" \in sens THEN "medium"
    ELSE "low"

\* C6: in every step max_sensitivity does not go down in the order
\* low < medium < high and is the highest sensitivity of the actions fed so
\* far, and an external egress stays external.
C6_MonotonicSensitivityEgress ==
    [][/\ SENS_RANK(state'.max_sensitivity) >= SENS_RANK(state.max_sensitivity)
       /\ state'.max_sensitivity = Highest(fed'.sensitivity)
       /\ (state.egress = "external" => state'.egress = "external")]_vars

\* The accumulator has just been fed an internal action of a sensitivity
\* below max_sensitivity after the egress had become external.
C6_Witness ==
    /\ call.op \in {"update_state_from_action", "record_action"}
    /\ updates = 2
    /\ SENS_RANK(NormalizedMeta(call.action).sensitivity)
           < SENS_RANK(state.max_sensitivity)
    /\ NormalizedMeta(call.action).egress = "internal"
    /\ state.egress = "external"

\* C7, as stated: volume_rows and volume_bytes never decrease from one step
\* to the next, whatever rows and bytes the actions carry.
C7_VolumeNeverDecreases ==
    [][/\ state'.volume_rows >= state.volume_rows
       /\ state'.volume_bytes >= state.volume_bytes]_vars

\* No element occurs twice in seq.
NoDuplicates(seq) == \A i, j \in 1..Len(seq) : seq[i] = seq[j] => i = j

\* The elements of new that are not in old, each once, in the order in which
\* they first occur in new.
FirstSeenOrder(new, old) ==
    LET firsts == {i \in 1..Len(new) :
                      /\ ~InSeq(new[i], old)
                      /\ \A j \in 1..(i - 1) : new[j] # new[i]}
    IN  [k \in 1..Cardinality(firsts) |->
            new[CHOOSE i \in firsts : Cardinality({j \in firsts : j < i}) = k - 1]]

\* This step feeds an action to the accumulator.
Fed == updates' = updates + 1

\* C16: seen_sources and tags never hold an element twice; a step that feeds
\* an action appends its source when it is new and those of its tags that
\* are new, each once, in the order of the action's tag list, after the
\* elements already there; no step removes or moves an element.
C16_OrderedSets ==
    [][/\ NoDuplicates(state'.seen_sources)
       /\ NoDuplicates(state'.tags)
       /\ IF Fed
          THEN /\ state'.seen_sources =
                      state.seen_sources
                      \o FirstSeenOrder(<<SourceFor(call'.action)>>, state.seen_sources)
               /\ state'.tags =
                      state.tags
                      \o FirstSeenOrder(NormalizedMeta(call'.action).tags, state.tags)
          ELSE /\ state'.seen_sources = state.seen_sources
               /\ state'.tags = state.tags]_vars

\* An action whose tag list repeats a tag has been fed after an action with
\* two tags: the tags are the first action's, the repeated tag among them
\* once.
C16_Witness ==
    /\ updates = 2
    /\ call.op = "update_state_from_action"
    /\ NormalizedMeta(call.action).tags = <<"PII", "PII">>
    /\ state.tags = <<"HR", "PII">>
    /\ Len(state.seen_sources) = 2


(***************************************************************************)
(* Properties of redaction and enforcement, over the calls of SpecEnforce. *)
(***************************************************************************)

\* The last call redacted a mapping: redact_auto, or enforce with
\* allow_with_redaction.
Redacting ==
    /\ \/ call.op = "redact_auto"
       \/ call.op = "enforce" /\ result.decision = "allow_with_redaction"
    /\ call.payload.t = "dict"

\* The keys that call masks: the default PII keys and the extra keys given.
MaskedKeys ==
    LET extra == IF call.op = "redact_auto" THEN call.extra
                 ELSE IF result.redactions.some /\ result.redactions.has_extra_keys
                 THEN result.redactions.extra_keys
                 ELSE <<>>
    IN  {"name", "first_name", "last_name", "full_name", "email", "phone",
         "address", "ssn", "passport", "dob"}
        \cup {extra[i] : i \in 1..Len(extra)}

Sentinel == [t |-> "text", v |-> <<"*", "*", "*">>]

RECURSIVE RedactedAs(_, _, _)
RedactedAs(in, out, keys) ==
    IF in.t = "dict"
    THEN /\ out.t = "dict"
         /\ DOMAIN out.v = DOMAIN in.v
         /\ \A k \in DOMAIN in.v :
                IF k \in keys
                THEN out.v[k] = (IF in.v[k].t \in {"none", "int", "float", "inf", "bool"}
                                 THEN in.v[k] ELSE Sentinel)
                ELSE RedactedAs(in.v[k], out.v[k], keys)
    ELSE IF in.t = "list"
    THEN /\ out.t = "list"
         /\ Len(out.v) = Len(in.v)
         /\ \A i \in 1..Len(in.v) : RedactedAs(in.v[i], out.v[i], keys)
    ELSE out = in

EnforcementFailed == outcome.raised /\ outcome.exc = "EnforcementError"

\* The last enforce was given a text and a pattern that does not compile.
BadPattern ==
    /\ call.payload.t = "text"
    /\ result.redactions.some /\ result.redactions.has_patterns
    /\ \E i \in 1..Len(result.redactions.patterns) :
           ~RegexCompiles(result.redactions.patterns[i])

\* What deny and require_approval raise, and what allow returns.
DecisionTable ==
    /\ result.decision = "deny" =>
           (EnforcementFailed /\ outcome.msg = result.reason)
    /\ result.decision = "require_approval" =>
           (EnforcementFailed
            /\ outcome.msg = [fmt |-> "Approval required: {} ({})",
                              args |-> <<result.approval_key, result.reason>>])
    /\ result.decision = "allow" =>
           (~outcome.raised /\ outcome.value = call.payload)

LoadFails(config) ==
    \/ config.kind \in {"unreadable", "corrupt", "list"}
    \/ /\ config.kind = "dict"
       /\ \E i \in 1..Len(config.patterns.commands) :
              ~RegexCompiles(config.patterns.commands[i])

\* What the hard rule and the risk thresholds alone give for the call.
RulesOnly ==
    IF SalaryForSOC
    THEN [decision |-> "require_approval", policy_id |-> "purpose.SOC_efficiency.salary"]
    ELSE [decision |-> IF FormulaRisk > 10 THEN "require_approval"
                       ELSE IF FormulaRisk > 5 THEN "allow_with_redaction"
                       ELSE "allow",
          policy_id |-> IF FormulaRisk > 10 THEN "risk.high"
                        ELSE IF FormulaRisk > 5 THEN "risk.moderate"
                        ELSE "risk.low"]

Band(decision) ==
    CASE decision = "allow" -> 0
      [] decision = "allow_with_redaction" -> 1
      [] decision = "require_approval" -> 2
      [] decision = "deny" -> 3

\* C23: when an action is evaluated again with more rows or with egress
\* turned external, everything else as before, the risk reported is not
\* lower and the decision is not less restrictive.
C23_RiskMonotonicity ==
    [][(Evaluated /\ Evaluated' /\ ~outcome.raised /\ ~outcome'.raised) =>
          /\ Band(result'.decision) >= Band(result.decision)
          /\ (RiskDecides /\ RiskDecides') => ReportedRisk' >= ReportedRisk]_vars

\* A medium read of 1001 rows (risk 8, redaction) was evaluated again with
\* 10001 rows and external egress (risk 20, approval).
C23_Witness ==
    /\ RiskDecides
    /\ NormalizedMeta(call.action).rows = 10001
    /\ NormalizedMeta(call.action).egress = "external"
    /\ ReportedRisk = 20
    /\ result.decision = "require_approval"


(***************************************************************************)
(* Properties of FileGuard, over the reads of SpecGuard.                   *)
(***************************************************************************)

\* This step is a read an interceptor of the guard took over.
Intercepted == guard'.reads = guard.reads + 1

\* C11, as stated: when the decision of an intercepted read is deny or
\* require_approval, the original open or read function is not called for the
\* file and the caller gets EnforcementError and nothing else.
C11_NoOriginalCallWhenRefused ==
    [][(Intercepted /\ result'.decision \in {"deny", "require_approval"})
         => /\ guard'.originals = guard.originals
            /\ outcome'.raised
            /\ outcome'.exc = "EnforcementError"]_vars

\* C12, as stated: an intercepted read evaluates the action against the trace
\* state as it was before the read, then records exactly one event with that
\* decision and updates the trace state, then reads and enforces; this also
\* when the decision refuses the read and when the read fails, so that the
\* log has one event for every intercepted read.
C12_OneEventPerInterceptedRead ==
    [][Intercepted =>
         /\ Len(events') = Len(events) + 1
         /\ SubSeq(events', 1, Len(events)) = events
         /\ \E c \in GuardConfigs :
                events'[Len(events')].decision =
                    DecisionDict(EvaluateResult(call'.action, state, guard.purpose,
                                                NoDenylist, c))
         /\ state' = UpdateState(state, call'.action)
         /\ Len(events') = guard'.reads
         /\ guard'.trail \in {<<"evaluate", "record_action", "read_fn">>,
                              <<"evaluate", "record_action", "read_fn", "enforce">>}]_vars


(***************************************************************************)
(* Properties of the accumulator's operations, over the runs of            *)
(* SpecAccumulator.                                                         *)
(***************************************************************************)

\* This step is a call that is not the accumulator's state update: evaluate,
\* build_event, record, to_jsonable, enforce, or record_action with
\* update_state=False.
NoUpdateCall ==
    \/ call'.op \in {"evaluate", "build_event", "record", "to_jsonable", "enforce"}
    \/ call'.op = "record_action" /\ call'.payload = PyBool(FALSE)

\* This step evaluates again the Action object the last call evaluated, as
\* that call left it, for the same purpose and denylist.
EvaluatedAgain ==
    /\ Evaluated /\ call'.op = "evaluate"
    /\ call'.action = action
    /\ call'.purpose = call.purpose
    /\ call'.denylist = call.denylist
    /\ call'.config = call.config

\* C14: a call other than the accumulator's state update leaves every field
\* of the trace state as it was, and an Action evaluated a second time with
\* nothing recorded in between gets the result it got the first time.
C14_StateChangedOnlyByUpdate ==
    [][/\ NoUpdateCall => state' = state
       /\ EvaluatedAgain => result' = result]_vars

\* record_action with update_state=False has recorded an action whose source
\* the trace state, already updated by other actions, has not seen.
C14_Witness ==
    /\ call.op = "record_action" /\ call.payload = PyBool(FALSE)
    /\ updates > 0
    /\ ~InSeq(SourceFor(call.action), state.seen_sources)
    /\ events[Len(events)].action.tool = call.action.tool

\* C15, as stated: the log is the events the record_action calls returned, in
\* the order of the calls.  Step by step: a record_action call appends the
\* event it returns, which carries the trace's trace_id, and no other
\* operation of the accumulator touches the log.
C15_LogOfRecordActionCalls ==
    [][IF call'.op = "record_action"
       THEN /\ events' = Append(events, outcome'.value.v)
            /\ outcome'.value.v.trace_id = state.trace_id
       ELSE events' = events]_vars

\* C15, as the code has it: record_action appends the event it returns, with
\* the trace's trace_id; record appends the event it is given; every other
\* operation leaves the log as it is.  No step removes, reorders or changes
\* an event of the log.
C15_AppendOnlyLog ==
    [][/\ SubSeq(events', 1, Len(events)) = events
       /\ CASE call'.op = "record_action" ->
                 /\ events' = Append(events, outcome'.value.v)
                 /\ outcome'.value.v.trace_id = state.trace_id
            [] call'.op = "record" -> events' = Append(events, call'.payload.v)
            [] OTHER -> events' = events]_vars

\* Two record_action calls with a record call of a built event between them:
\* the event the second call returned is the third of the log.
C15_Witness ==
    /\ Len(events) = 3
    /\ call.op = "record_action"
    /\ events[3] = outcome.value.v
    /\ events[1].span_id = "s-1"
    /\ events[2].span_id = "s-2"
    /\ events[1] # events[3]


(***************************************************************************)
(* Properties of normalisation, over the Action objects of SpecMeta.       *)
(***************************************************************************)

\* C17: no call changes what normalized_meta gives for the Action object,
\* normalize_meta included, and a normalize_meta call that follows another
\* leaves result_meta as it found it.
C17_IdempotentNormalization ==
    [][/\ NormalizedMeta(action') = NormalizedMeta(action)
       /\ (call.op = "normalize_meta" /\ call'.op = "normalize_meta")
              => action'.result_meta = action.result_meta]_vars

\* normalize_meta has been called on the normalised form of a result_meta
\* that gave rows as text and a number among its tags.
C17_Witness ==
    /\ call.op = "normalize_meta"
    /\ call.action = action
    /\ action.result_meta["rows"] = PyInt(12)
    /\ action.result_meta["tags"] = PyList(<<PyStr("PII"), PyStr("1"), PyStr("PII")>>)

\* C18, as stated: normalized_meta returns a ResultMeta, never fails, with a
\* sensitivity of low, medium or high (low when the entry is missing), an
\* egress of internal or external (internal when missing), and rows and
\* bytes that are non-negative integers (0 when missing).
C18_TotalNormalization ==
    call.op = "normalized_meta" =>
        /\ ~outcome.raised
        /\ outcome.value.t = "meta"
        /\ LET m == outcome.value.v
               d == call.action.result_meta
           IN  /\ m.sensitivity \in {"low", "medium", "high"}
               /\ d["sensitivity"] = Absent => m.sensitivity = "low"
               /\ m.egress \in {"internal", "external"}
               /\ d["egress"] = Absent => m.egress = "internal"
               /\ m.rows \in Nat /\ m.bytes \in Nat
               /\ d["rows"] = Absent => m.rows = 0
               /\ d["bytes"] = Absent => m.bytes = 0


(***************************************************************************)
(* Properties of the denylist, over the calls of SpecDenylist.             *)
(***************************************************************************)

\* The tools a category of patterns applies to.
CategoryTools(category) ==
    CASE category = "urls" -> UrlTools
      [] category = "files" -> FileTools
      [] category = "commands" -> CommandTools

\* Whether some pattern of the category, taken by itself, matches resource.
CategoryMatches(category, patterns, resource) ==
    CASE category = "urls" ->
             \E i \in 1..Len(patterns.urls) :
                 RegexSearch(CompilePattern(patterns.urls[i]), resource)
      [] category = "files" ->
             \E i \in 1..Len(patterns.files) :
                 FilePatternBlocks(resource, patterns.files[i])
      [] category = "commands" ->
             \E i \in 1..Len(patterns.commands) :
                 RegexSearch(CompilePattern(patterns.commands[i]), resource)

\* C19: is_blocked reports a block only when a pattern of the category the
\* tool belongs to matches the resource; a tool of no category is never
\* blocked, and patterns of the other categories never block, whatever the
\* resource is.
C19_StrictCategoryScoping ==
    (call.op = "is_blocked" /\ ~outcome.raised) =>
        LET tool == call.action.tool
            resource == call.action.resource
            patterns == call.denylist.patterns
        IN  outcome.value.v.blocked <=>
                \E category \in {"urls", "files", "commands"} :
                    /\ tool \in CategoryTools(category)
                    /\ CategoryMatches(category, patterns, resource)

\* is_blocked was asked about the resource "/checkout" for file_read with
\* "/checkout" as the only url pattern, and did not block.
C19_Witness ==
    /\ call.op = "is_blocked"
    /\ call.denylist.patterns = Patterns(<<s_checkout>>, <<>>, <<>>)
    /\ call.action.resource = s_checkout
    /\ call.action.tool = s_file_read
    /\ ~outcome.raised
    /\ ~outcome.value.v.blocked

PatternsCompile(patterns) ==
    /\ \A i \in 1..Len(patterns.urls) : RegexCompiles(patterns.urls[i])
    /\ \A i \in 1..Len(patterns.commands) : RegexCompiles(patterns.commands[i])

Adds(i, category, pattern) ==
    /\ call'.op = "add_pattern"
    /\ call'.payload = PyInt(i)
    /\ call'.extra = <<category, pattern>>

\* The pattern texts of the object i: Denylist.to_dict.
Exported(h, i) == DenylistToDict(Lists(h, h.objs[i]))

\* The lists of object i after the call are those before it with pattern
\* appended to the list of category and to no other.
AppendedTo(i, category, pattern) ==
    Exported(denylists', i) =
        [Exported(denylists, i) EXCEPT ![category] = Append(@, pattern)]

\* C22, as stated: add_pattern with one of the three categories appends the
\* pattern to that category's list only; with any other category it fails
\* with ValueError and leaves the three lists as they were.
C22_AddPatternAppends ==
    [][\A i \in 1..Len(denylists.objs), category \in AddedCategories,
         pattern \in AddedPatterns :
           Adds(i, category, pattern) =>
               IF category \in {"urls", "files", "commands"}
               THEN ~outcome'.raised /\ AppendedTo(i, category, pattern)
               ELSE /\ outcome'.raised /\ outcome'.exc = "ValueError"
                    /\ Exported(denylists', i) = Exported(denylists, i)]_vars

\* C22, amended: a url or command pattern that is no regular expression
\* makes add_pattern fail with re.error, the lists unchanged; every other
\* pattern of the three categories is appended to its own list only, and
\* from then on the object blocks the resources the pattern matches for the
\* tools of that category; another category fails with ValueError.
C22_AddPatternAppendsOrFails ==
    [][\A i \in 1..Len(denylists.objs), category \in AddedCategories,
         pattern \in AddedPatterns :
           Adds(i, category, pattern) =>
               IF category \notin {"urls", "files", "commands"}
               THEN /\ outcome'.raised /\ outcome'.exc = "ValueError"
                    /\ Exported(denylists', i) = Exported(denylists, i)
               ELSE IF category # "files" /\ ~RegexCompiles(pattern)
               THEN /\ outcome'.raised /\ outcome'.exc = "error"
                    /\ Exported(denylists', i) = Exported(denylists, i)
               ELSE /\ ~outcome'.raised
                    /\ AppendedTo(i, category, pattern)
                    /\ \A tool \in CategoryTools(category) :
                           IsBlocked(Lists(denylists', denylists'.objs[i]),
                                     pattern, tool).blocked]_vars

\* "/checkout" was added to the url patterns of an object that had a url
\* pattern added before, and the object has been asked about a post to
\* "/checkout" since, which it blocks.
C22_Witness ==
    /\ denylists.added = 2
    /\ Len(denylists.objs) >= 1
    /\ Exported(denylists, 1).urls = <<s_rm, s_checkout, s_checkout>>
    /\ call.op = "is_blocked" /\ call.payload = PyInt(1)
    /\ call.action.tool = s_http_post
    /\ ~outcome.raised /\ outcome.value.v.blocked

\* C29, as stated: add_pattern on one Denylist object changes no other
\* object and not the built-in patterns, so that an object loaded from the
\* defaults, before or after the call, has exactly the built-in patterns
\* unless add_pattern was called on it.
C29_InstanceIsolation ==
    [][\A i \in 1..Len(denylists.objs), category \in AddedCategories,
         pattern \in AddedPatterns :
           Adds(i, category, pattern) =>
               /\ denylists'.default_files = DEFAULT_DENYLIST.files
               /\ \A j \in 1..Len(denylists.objs) :
                      j # i => Exported(denylists', j) = Exported(denylists, j)]_vars


(***************************************************************************)
(* The source of an action, as the tracer stores it and as evaluate looks  *)
(* it up.                                                                  *)
(***************************************************************************)

\* The call before the step fed the action into the trace state.
StateUpdated ==
    \/ call.op = "update_state_from_action"
    \/ call.op = "record_action" /\ call.payload = PyBool(TRUE)

\* C27, as stated: an evaluate that follows the recording of an action with
\* the same tool and resource looks up, in seen_sources, the source the
\* tracer stored, and so adds no novelty term to the risk.
C27_SourceAgreement ==
    [][(/\ StateUpdated
        /\ call'.op = "evaluate"
        /\ call'.action.tool = call.action.tool
        /\ call'.action.resource = call.action.resource)
       => /\ \E i \in 1..Len(state'.seen_sources) :
                 state'.seen_sources[i] = PolicySource(call'.action)
          /\ EvaluateRisk(call'.action, state')
               = RiskScore(NormalizedMeta(NormalizeMeta(call'.action)), state',
                           FALSE)]_vars


(***************************************************************************)
(* Properties of to_jsonable, over the structures the caller holds.        *)
(***************************************************************************)

\* C24: to_jsonable changes neither the trace state nor the event log and
\* the structure it returns holds the whole trace state and the events in
\* log order; emptying a list of a returned structure changes nothing in
\* the accumulator; and a later record_action or update_state_from_action
\* changes nothing in a structure returned earlier.
C24_PureSnapshot ==
    [][/\ call'.op = "to_jsonable" =>
            /\ state' = state /\ events' = events
            /\ outcome'.value = Snapshot(state, events)
            /\ kept' # kept =>
                   Seen(kept'[Len(kept')], state', events')
                       = [trace_state |-> state, events |-> events]
       /\ call'.op = "clear" => state' = state /\ events' = events
       /\ call'.op \in {"record_action", "update_state_from_action"} =>
            \A i \in 1..Len(kept) :
                Seen(kept'[i], state', events') = Seen(kept[i], state, events)]_vars

\* A structure exported with one event and one source is held while the
\* accumulator has recorded a second event and seen a second source since.
C24_Witness ==
    /\ Len(kept) = 1
    /\ Len(Seen(kept[1], state, events).events) = 1
    /\ Len(Seen(kept[1], state, events).trace_state.seen_sources) = 1
    /\ Len(events) = 2
    /\ Len(state.seen_sources) = 2
    /\ call.op = "record_action"


(***************************************************************************)
(* What allow_with_redaction does to a payload that is no dictionary and   *)
(* no list.                                                                *)
(***************************************************************************)

Structured(data) == data.t \in {"dict", "list"}

\* enforce was called with an allow_with_redaction result.
EnforcedWithRedaction ==
    call.op = "enforce" /\ result.decision = "allow_with_redaction"

GuardedReadUnmasked ==
    (/\ guard.reads > 0
     /\ result.decision = "allow_with_redaction"
     /\ ~outcome.raised)
    => outcome.value = (CASE call.op = "open" -> FileObject(call.payload.v)
                          [] call.op = "read_text" -> PyText(FileContent)
                          [] OTHER -> FileBytes(FileContent))

GuardedReadRedactedReached ==
    /\ guard.reads > 0
    /\ result.decision = "allow_with_redaction"
    /\ ~outcome.raised


(***************************************************************************)
(* Properties of FileGuard objects that overlap.                           *)
(***************************************************************************)

\* C25, as stated: when the with block on a guard is left, its body having
\* completed or raised, open, read_text and read_bytes are the functions
\* that were in place before the block was entered, the guard is not
\* active, and the exception the body raised goes on to the caller.
C25_RestoresOnExit ==
    [][\A i \in 1..Len(guards) :
          (call'.op = "__exit__" /\ call'.payload = PyInt(i)) =>
              /\ builtins' = guards[i].entered.builtins
              /\ ~guards'[i].active
              /\ call'.extra # <<"">> =>
                     outcome'.raised /\ outcome'.exc = call'.extra[1]]_vars

SomeActive == \E i \in 1..Len(guards) : guards[i].active

\* C28, as stated: while a guard is active a text-mode open goes through
\* the interceptor of an active guard, and when no guard is active
\* builtins.open is the interpreter's own function.
C28_OverlappingGuards ==
    /\ SomeActive =>
           \E n \in 1..Len(InterceptedBy(builtins.open, guards)) :
               guards[InterceptedBy(builtins.open, guards)[n]].active
    /\ ~SomeActive => builtins.open = 0


(***************************************************************************)
(* Properties of the SDK's guard decorator.                                *)
(***************************************************************************)

\* A guarded function is called with a client at hand.
GuardedWithClient(client) ==
    /\ call'.op = "guard"
    /\ call'.extra[1] = client
    /\ client \/ sdk.default_client

\* The binary printed an object whose decision is allow or
\* allow_with_redaction.
PrintedAllow(stdout) ==
    stdout \in {"{\"decision\": \"allow\", \"reason\": \"ok\"}",
                "{\"decision\": \"allow_with_redaction\", \"reason\": \"ok\"}"}

\* C26, as stated: the guarded function runs only when the check, having
\* exited with 0 or 77, gave the decision allow or allow_with_redaction;
\* for every other output of such a check, a missing or unparseable
\* decision included, BlockedError is raised and the function does not
\* run; with no client RuntimeError is raised and the function does not run.
C26_GuardFailClosed ==
    [][/\ call'.op = "guard" =>
            (sdk'.called # sdk.called =>
                /\ call'.extra[1] \/ sdk.default_client
                /\ call'.payload.v \in {0, EXIT_BLOCKED}
                /\ PrintedAllow(call'.extra[2]))
       /\ \A client \in BOOLEAN :
            (GuardedWithClient(client) /\ call'.payload.v \in {0, EXIT_BLOCKED}) =>
                IF PrintedAllow(call'.extra[2])
                THEN sdk'.called = sdk.called + 1 /\ ~outcome'.raised
                ELSE /\ sdk'.called = sdk.called
                     /\ outcome'.raised /\ outcome'.exc = "BlockedError"
       /\ (call'.op = "guard" /\ ~call'.extra[1] /\ ~sdk.default_client) =>
            /\ sdk'.called = sdk.called
            /\ outcome'.raised /\ outcome'.exc = "RuntimeError"]_vars

\* The guarded function runs only after a check that exited with 0 or 77
\* and printed allow or allow_with_redaction, and every other call of the
\* wrapper raises.
GuardRunsOnlyWhenAllowed ==
    [][call'.op = "guard" =>
          IF /\ call'.extra[1] \/ sdk.default_client
             /\ call'.payload.v \in {0, EXIT_BLOCKED}
             /\ PrintedAllow(call'.extra[2])
          THEN sdk'.called = sdk.called + 1 /\ outcome' = Returned(PyStr("ran"))
          ELSE /\ sdk'.called = sdk.called
               /\ outcome'.raised
               /\ outcome'.exc \in {"BlockedError", "RuntimeError", "AttributeError"}]_vars

====
